---------------------------- MODULE Spec2Model ----------------------------
(***************************************************************************)
(* Cross-document reconciliation engine of the manufacturing QC backend:   *)
(* the field normalizers and the list comparator (app/utils/normalizers),  *)
(* the seven check executors, the verdict aggregator and validate_session  *)
(* (app/services/validator), and the processing workflow                   *)
(* (app/services/file_processor, app/services/workflow,                    *)
(* app/api/endpoints/processing).                                          *)
(*                                                                         *)
(* A Python str is a sequence of one-character strings, so that the        *)
(* normalizers are computed character by character as the code does.       *)
(***************************************************************************)
EXTENDS Integers, Sequences, FiniteSets, TLC

VARIABLES
    files,              \* uploaded_files rows of the session, in query order
    hash_seed,          \* the process's str hash seed: fixes the iteration order of a set
    validation_results, \* validation_results rows of the session, in insertion order
    overall_result,     \* sessions.overall_result (nullable)
    runs,               \* number of validate_session calls made
    arg,                \* the argument drawn for a call of a pure function on its own
    call,               \* the last call made and what it returned
    session_status,     \* sessions.status
    tasks               \* the workflow request in progress: its position, locals and coroutines

vars == <<files, hash_seed, validation_results, overall_result, runs, arg, call, session_status, tasks>>

-----------------------------------------------------------------------------
(* Bounds *)

\* longest list of raw strings drawn for a field of a document
MaxLen == 2
\* longest list of CheckResults handed to the verdict aggregator on its own
MaxResults == 4
\* validate_session calls in one behaviour
MaxRuns == 2
\* files a session holds at a time
MaxFiles == 3
\* tokens concatenated into a raw string handed to a normalizer
MaxTokens == 3

-----------------------------------------------------------------------------
(* Python str and list primitives *)

\* None, kept distinct from every str (a str holds one-character elements only)
None == <<"None">>

\* NULL in the nullable enum column sessions.overall_result
Null == "NULL"

LowerSeq == <<"a","b","c","d","e","f","g","h","i","j","k","l","m",
              "n","o","p","q","r","s","t","u","v","w","x","y","z">>
UpperSeq == <<"A","B","C","D","E","F","G","H","I","J","K","L","M",
              "N","O","P","Q","R","S","T","U","V","W","X","Y","Z">>
DigitSeq == <<"0","1","2","3","4","5","6","7","8","9">>

Range(s) == {s[i] : i \in DOMAIN s}

IsDigit(c) == c \in Range(DigitSeq)
IsUpper(c) == c \in Range(UpperSeq)
IsSpace(c) == c \in {" ", "\t", "\n"}

UpperChar(c) ==
    IF \E i \in DOMAIN LowerSeq : LowerSeq[i] = c
    THEN UpperSeq[CHOOSE i \in DOMAIN LowerSeq : LowerSeq[i] = c]
    ELSE c

\* str.upper()
upper(s) == [i \in 1..Len(s) |-> UpperChar(s[i])]

\* str.strip()
strip(s) ==
    LET keep == {i \in 1..Len(s) : ~IsSpace(s[i])}
    IN  IF keep = {} THEN <<>>
        ELSE LET lo == CHOOSE i \in keep : \A j \in keep : i <= j
                 hi == CHOOSE i \in keep : \A j \in keep : j <= i
             IN  SubSeq(s, lo, hi)

\* str.replace(old, new) for one-character old and new
replace(s, old, new) == [i \in 1..Len(s) |-> IF s[i] = old THEN new ELSE s[i]]

\* str.startswith(p)
startswith(s, p) == Len(p) <= Len(s) /\ SubSeq(s, 1, Len(p)) = p

\* sub in s
contains(s, sub) ==
    \E i \in 0..(Len(s) - Len(sub)) : SubSeq(s, i + 1, i + Len(sub)) = sub

\* end of the longest run of characters in class C(_) that starts at position i
\* (i - 1 when s[i] is not in the class or i is past the end)
RECURSIVE RunEnd(_, _, _)
RunEnd(s, i, digit) ==
    IF i <= Len(s) /\ (IF digit THEN IsDigit(s[i]) ELSE IsUpper(s[i]))
    THEN RunEnd(s, i + 1, digit)
    ELSE i - 1

\* position after an optional [-_] at position i
SkipSep(s, i) == IF i <= Len(s) /\ s[i] \in {"-", "_"} THEN i + 1 ELSE i

\* sep.join(list)
RECURSIVE join(_, _)
join(sep, list) ==
    IF list = <<>> THEN <<>>
    ELSE IF Len(list) = 1 THEN list[1]
    ELSE list[1] \o sep \o join(sep, Tail(list))

CommaSpace == <<",", " ">>

\* [f(x) for x in list]
Map(f(_), list) == [i \in 1..Len(list) |-> f(list[i])]

\* [x for x in list if p(x)]
RECURSIVE Filter(_, _)
Filter(p(_), list) ==
    IF list = <<>> THEN <<>>
    ELSE IF p(Head(list)) THEN <<Head(list)>> \o Filter(p, Tail(list))
    ELSE Filter(p, Tail(list))

-----------------------------------------------------------------------------
(* Field normalizers: app/utils/normalizers.py *)

\* the first digit run alone
SerialNumberMatchFirstRun(s) ==
    LET ds == {i \in 1..Len(s) : IsDigit(s[i])}
    IN  IF ds = {} THEN None
        ELSE LET first == CHOOSE i \in ds : \A j \in ds : i <= j
             IN  SubSeq(s, first, RunEnd(s, first, TRUE))

\* re.search(r'(\d+[-_]?\d*)', s).group(1), or None when nothing matches
SerialNumberMatch(s) ==
    LET ds == {i \in 1..Len(s) : IsDigit(s[i])}
    IN  IF ds = {} THEN None
        ELSE LET first == CHOOSE i \in ds : \A j \in ds : i <= j
                 e1    == RunEnd(s, first, TRUE)
                 e2    == RunEnd(s, SkipSep(s, e1 + 1), TRUE)
             IN  SubSeq(s, first, e2)

\* serial normalization that prefixes every cleaned serial
NormalizeSerialAlwaysPrefixes(serial, prefix) ==
    IF serial = <<>> THEN <<>>
    ELSE LET clean_serial == replace(upper(strip(serial)), "_", "-")
             number_match == SerialNumberMatch(clean_serial)
         IN  IF number_match # None
             THEN prefix \o <<"-">> \o replace(number_match, "_", "-")
             ELSE prefix \o <<"-">> \o clean_serial

normalize_serial_number(serial, prefix) ==
    IF serial = <<>> THEN <<>>
    ELSE LET clean_serial == replace(upper(strip(serial)), "_", "-")
             number_match == SerialNumberMatch(clean_serial)
         IN  IF startswith(clean_serial, prefix \o <<"-">>) THEN clean_serial
             ELSE IF number_match # None
                  THEN prefix \o <<"-">> \o replace(number_match, "_", "-")
                  ELSE clean_serial

normalize_board_serial(serial) == normalize_serial_number(serial, <<"V","G","N">>)

normalize_unit_serial(serial) == normalize_serial_number(serial, <<"I","N","F">>)

\* re.match(r'([A-Z]+)[-_]?(\d+)[-_]?([A-Z]\d?)', s).groups(), or None.
\* The classes are disjoint, so the greedy match is the only one.
PartNumberMatch(s) ==
    LET a  == RunEnd(s, 1, FALSE)
        d1 == SkipSep(s, a + 1)
        b  == RunEnd(s, d1, TRUE)
        l  == SkipSep(s, b + 1)
        e  == IF l + 1 <= Len(s) /\ IsDigit(s[l + 1]) THEN l + 1 ELSE l
    IN  IF a >= 1 /\ b >= d1 /\ l <= Len(s) /\ IsUpper(s[l])
        THEN <<SubSeq(s, 1, a), SubSeq(s, d1, b), SubSeq(s, l, e)>>
        ELSE None

normalize_part_number(part_number) ==
    IF part_number = <<>> THEN <<>>
    ELSE LET clean_part == replace(upper(strip(part_number)), "_", "-")
             part_match == PartNumberMatch(clean_part)
         IN  IF part_match # None
             THEN part_match[1] \o <<"-">> \o part_match[2] \o <<"-">> \o part_match[3]
             ELSE clean_part

\* re.sub(r'^REV\s*', '', s)
RECURSIVE DropSpaces(_)
DropSpaces(s) == IF s # <<>> /\ IsSpace(Head(s)) THEN DropSpaces(Tail(s)) ELSE s

normalize_revision(revision) ==
    IF revision = <<>> THEN <<>>
    ELSE LET clean_rev == upper(strip(revision))
         IN  IF startswith(clean_rev, <<"R","E","V">>)
             THEN DropSpaces(SubSeq(clean_rev, 4, Len(clean_rev)))
             ELSE clean_rev

normalize_job_number(job_number) ==
    IF job_number = <<>> THEN <<>>
    ELSE LET digits == Filter(IsDigit, job_number)
         IN  IF Len(digits) = 5 THEN digits ELSE strip(job_number)

EduNotForFlight == <<"E","D","U"," ","-"," ","N","O","T"," ","F","O","R"," ","F","L","I","G","H","T">>
NotForFlight == <<"N","O","T"," ","F","O","R"," ","F","L","I","G","H","T">>
Flight == <<"F","L","I","G","H","T">>

normalize_flight_status(status) ==
    IF status = <<>> THEN <<>>
    ELSE LET clean_status == upper(strip(status))
         IN  IF contains(clean_status, <<"E","D","U">>) \/ contains(clean_status, NotForFlight)
             THEN EduNotForFlight
             ELSE IF contains(clean_status, Flight) THEN Flight
             ELSE clean_status


-----------------------------------------------------------------------------
(* Iteration order of a set of str.  list(set) in compare_normalized_lists      *)
(* yields the elements in the order the process's hash seed gives them; the    *)
(* two seeds modelled are a total order and its reverse, so that every pair of *)
(* elements is seen in both relative orders.                                   *)

HashSeeds == {"seed_a", "seed_b"}

CharOrder == <<" ", "\t", "\n", "'", ",", "-", "_", "[", "]">> \o DigitSeq \o UpperSeq \o LowerSeq

CharRank(c) ==
    IF \E i \in DOMAIN CharOrder : CharOrder[i] = c
    THEN CHOOSE i \in DOMAIN CharOrder : CharOrder[i] = c
    ELSE 0

RECURSIVE StrLess(_, _)
StrLess(a, b) ==
    IF a = <<>> THEN b # <<>>
    ELSE IF b = <<>> THEN FALSE
    ELSE IF Head(a) = Head(b) THEN StrLess(Tail(a), Tail(b))
    ELSE CharRank(Head(a)) < CharRank(Head(b))

Before(a, b, seed) == IF seed = "seed_a" THEN StrLess(a, b) ELSE StrLess(b, a)

\* list(S) for a set S of str
RECURSIVE SetToList(_, _)
SetToList(S, seed) ==
    IF S = {} THEN <<>>
    ELSE LET x == CHOOSE y \in S : \A z \in S \ {y} : Before(y, z, seed)
         IN  <<x>> \o SetToList(S \ {x}, seed)

\* repr(list) of a list of str
Quote(s) == <<"'">> \o s \o <<"'">>
repr(list) == <<"[">> \o join(CommaSpace, Map(Quote, list)) \o <<"]">>

Max(a, b) == IF a >= b THEN a ELSE b

-----------------------------------------------------------------------------
(* List comparator: app/utils/normalizers.py *)

\* the comparator taking the union for the matches
CompareMatchesUnion(list1, list2, seed) ==
    LET set1 == Range(list1)
        set2 == Range(list2)
    IN  [matches             |-> SetToList(set1 \cup set2, seed),
         missing_in_second   |-> SetToList(set1 \ set2, seed),
         missing_in_first    |-> SetToList(set2 \ set1, seed),
         match_count         |-> Cardinality(set1 \cup set2),
         total_unique_first  |-> Cardinality(set1),
         total_unique_second |-> Cardinality(set2),
         match_percentage    |-> <<100, 1>>]

\* the comparator counting list elements, duplicates included
CompareKeepsDuplicates(list1, list2, seed) ==
    LET set1 == Range(list1)
        set2 == Range(list2)
    IN  [matches             |-> SetToList(set1 \cap set2, seed),
         missing_in_second   |-> SetToList(set1 \ set2, seed),
         missing_in_first    |-> SetToList(set2 \ set1, seed),
         match_count         |-> Cardinality(set1 \cap set2),
         total_unique_first  |-> Len(list1),
         total_unique_second |-> Len(list2),
         match_percentage    |->
             IF set1 # {} \/ set2 # {}
             THEN <<Cardinality(set1 \cap set2) * 100, Max(Len(list1), Len(list2))>>
             ELSE <<100, 1>>]

\* the comparator matching the lists position by position
CompareElementwise(list1, list2, seed) ==
    LET set1 == Range(list1)
        set2 == Range(list2)
        both == {list1[i] : i \in {j \in DOMAIN list1 \cap DOMAIN list2 : list1[j] = list2[j]}}
    IN  [matches             |-> SetToList(both, seed),
         missing_in_second   |-> SetToList(set1 \ set2, seed),
         missing_in_first    |-> SetToList(set2 \ set1, seed),
         match_count         |-> Cardinality(both),
         total_unique_first  |-> Cardinality(set1),
         total_unique_second |-> Cardinality(set2),
         match_percentage    |-> <<100, 1>>]

\* the comparator with missing_in_first and missing_in_second exchanged
CompareMissingSwapped(list1, list2, seed) ==
    LET set1 == Range(list1)
        set2 == Range(list2)
    IN  [matches             |-> SetToList(set1 \cap set2, seed),
         missing_in_second   |-> SetToList(set2 \ set1, seed),
         missing_in_first    |-> SetToList(set1 \ set2, seed),
         match_count         |-> Cardinality(set1 \cap set2),
         total_unique_first  |-> Cardinality(set1),
         total_unique_second |-> Cardinality(set2),
         match_percentage    |-> <<100, 1>>]

\* called without normalizer_func, as every executor does.  match_percentage is
\* the fraction <<numerator, denominator>> of len(matches) / max(...) * 100.
compare_normalized_lists(list1, list2, seed) ==
    LET set1 == Range(list1)
        set2 == Range(list2)
        matches == set1 \cap set2
        missing_in_2 == set1 \ set2
        missing_in_1 == set2 \ set1
    IN  [matches             |-> SetToList(matches, seed),
         missing_in_second   |-> SetToList(missing_in_2, seed),
         missing_in_first    |-> SetToList(missing_in_1, seed),
         match_count         |-> Cardinality(matches),
         total_unique_first  |-> Cardinality(set1),
         total_unique_second |-> Cardinality(set2),
         match_percentage    |->
             IF set1 # {} \/ set2 # {}
             THEN <<Cardinality(matches) * 100, Max(Cardinality(set1), Cardinality(set2))>>
             ELSE <<100, 1>>]

-----------------------------------------------------------------------------
(* Data aggregation *)

\* the tables hold one session
SessionId == "session"

\* seq_20_data of a traveler: {} reads as two empty lists through .get(key, [])
NoSeq20 == [board_serials |-> <<>>, unit_serials |-> <<>>]

\* uploaded_files.extracted_data IS NULL
NoData == [is_null |-> TRUE]

\* extract_data_by_file_type: the keys the validator reads, by the file_type
\* the extractor wrote into extracted_data
extract_data_by_file_type(file_data) ==
    LET result == [job_numbers       |-> <<>>,
                   part_numbers      |-> <<>>,
                   board_serials     |-> <<>>,
                   unit_serials      |-> <<>>,
                   revisions         |-> <<>>,
                   work_instructions |-> <<>>,
                   flight_status     |-> None,
                   seq_20_data       |-> NoSeq20]
    IN  IF file_data.file_type = "TRAVELER_PDF"
        THEN [result EXCEPT !.job_numbers = file_data.job_numbers,
                            !.part_numbers = file_data.board_part_numbers \o file_data.work_instructions,
                            !.board_serials = file_data.board_serials,
                            !.unit_serials = file_data.unit_serials,
                            !.revisions = file_data.revisions,
                            !.work_instructions = file_data.work_instructions,
                            !.seq_20_data = file_data.seq_20_data]
        ELSE IF file_data.file_type = "PRODUCT_IMAGE"
        THEN [result EXCEPT !.board_serials = file_data.board_serials,
                            !.unit_serials = file_data.unit_serials,
                            !.part_numbers = file_data.board_part_numbers,
                            !.flight_status = file_data.flight_status]
        ELSE IF file_data.file_type = "BOM_EXCEL"
        THEN [result EXCEPT !.job_numbers = file_data.job_numbers,
                            !.part_numbers = file_data.part_numbers,
                            !.revisions = file_data.revisions]
        ELSE result

\* a role that no file filled: traveler_data / image_data is None
Absent == [present |-> FALSE]

Bag(data) == [present |-> TRUE, data |-> data]

\* the aggregation that keeps the first Traveler of the list instead of the last
ExtractSessionDataFirstTraveler(fs) ==
    LET ok == SelectSeq(fs, LAMBDA f : f.extracted_data # NoData /\ f.extracted_data.success)
        T == SelectSeq(ok, LAMBDA f : f.file_type = "TRAVELER_PDF")
        I == SelectSeq(ok, LAMBDA f : f.file_type = "PRODUCT_IMAGE")
        B == SelectSeq(ok, LAMBDA f : f.file_type = "BOM_EXCEL")
    IN  [traveler_data |-> IF T = <<>> THEN Absent
                           ELSE Bag(extract_data_by_file_type(T[1].extracted_data)),
         image_data |-> IF I = <<>> THEN Absent
                        ELSE Bag(extract_data_by_file_type(I[Len(I)].extracted_data)),
         bom_data |-> [k \in DOMAIN B |-> extract_data_by_file_type(B[k].extracted_data)],
         file_info |-> [k \in DOMAIN ok |->
                           [id |-> ok[k].id, file_type |-> ok[k].file_type,
                            data |-> extract_data_by_file_type(ok[k].extracted_data)]]]

RECURSIVE _extract_session_data(_)
_extract_session_data(fs) ==
    IF fs = <<>>
    THEN [traveler_data |-> Absent, image_data |-> Absent, bom_data |-> <<>>, file_info |-> <<>>]
    ELSE LET n    == Len(fs)
             file == fs[n]
             acc  == _extract_session_data(SubSeq(fs, 1, n - 1))
             extracted_data == file.extracted_data
         IN  IF extracted_data = NoData \/ ~extracted_data.success THEN acc
             ELSE LET processed_data == extract_data_by_file_type(extracted_data)
                      info == Append(acc.file_info,
                                     [id |-> file.id, file_type |-> file.file_type,
                                      data |-> processed_data])
                  IN  IF file.file_type = "TRAVELER_PDF"
                      THEN [acc EXCEPT !.file_info = info, !.traveler_data = Bag(processed_data)]
                      ELSE IF file.file_type = "PRODUCT_IMAGE"
                      THEN [acc EXCEPT !.file_info = info, !.image_data = Bag(processed_data)]
                      ELSE IF file.file_type = "BOM_EXCEL"
                      THEN [acc EXCEPT !.file_info = info,
                                       !.bom_data = Append(acc.bom_data, processed_data)]
                      ELSE [acc EXCEPT !.file_info = info]

-----------------------------------------------------------------------------
(* Check executors: app/services/validator.py.  An f-string or a literal is    *)
(* the sequence of its literal pieces (one element each) and the characters    *)
(* of the values formatted into it.                                            *)

\* the dict an executor appends; a key it leaves out is None, as in the row
\* ValidationResult(**result_data) stores
CheckResult(check_type, status, description, expected_value, actual_value, details) ==
    [session_id     |-> SessionId,
     check_type     |-> check_type,
     status         |-> status,
     description    |-> description,
     expected_value |-> expected_value,
     actual_value   |-> actual_value,
     details        |-> details]

\* what a call of an executor does: returns its list, or raises
Returns(results) == [raised |-> FALSE, results |-> results]
Raises == [raised |-> TRUE, results |-> <<>>]

RECURSIVE Concat(_)
Concat(lists) == IF lists = <<>> THEN <<>> ELSE Head(lists) \o Concat(Tail(lists))

_validate_job_numbers(file_data, seed) ==
    LET traveler_data == file_data.traveler_data
        bom_data_list == file_data.bom_data
    IN  IF ~traveler_data.present \/ bom_data_list = <<>>
        THEN Returns(<<CheckResult("JOB_NUMBER", "FAIL",
                          <<"Missing required files for job number validation">>,
                          None, None,
                          <<"Need both Traveler PDF and BOM Excel files">>)>>)
        ELSE LET traveler_jobs == Map(normalize_job_number, traveler_data.data.job_numbers)
                 ForBom(bom_data) ==
                     LET bom_jobs   == Map(normalize_job_number, bom_data.job_numbers)
                         comparison == compare_normalized_lists(traveler_jobs, bom_jobs, seed)
                     IN  IF comparison.matches # <<>>
                         THEN CheckResult("JOB_NUMBER", "PASS",
                                  <<"Job numbers match: ">> \o join(CommaSpace, comparison.matches),
                                  join(CommaSpace, traveler_jobs),
                                  join(CommaSpace, bom_jobs),
                                  None)
                         ELSE CheckResult("JOB_NUMBER", "FAIL",
                                  <<"Job number mismatch between Traveler and BOM">>,
                                  join(CommaSpace, traveler_jobs),
                                  join(CommaSpace, bom_jobs),
                                  <<"Traveler missing: ">> \o repr(comparison.missing_in_first)
                                      \o <<", BOM missing: ">> \o repr(comparison.missing_in_second))
             IN  Returns(Map(ForBom, bom_data_list))

_validate_part_numbers(file_data, seed) ==
    LET traveler_data == file_data.traveler_data
        bom_data_list == file_data.bom_data
    IN  IF ~traveler_data.present \/ bom_data_list = <<>>
        THEN Returns(<<>>)
        ELSE LET traveler_parts == Map(normalize_part_number, traveler_data.data.part_numbers)
                 ForBom(bom_data) ==
                     LET bom_parts  == Map(normalize_part_number, bom_data.part_numbers)
                         comparison == compare_normalized_lists(traveler_parts, bom_parts, seed)
                     IN  IF comparison.missing_in_second # <<>>
                         THEN CheckResult("PART_NUMBER", "FAIL",
                                  <<"Part numbers found in Traveler but missing in BOM: ">>
                                      \o join(CommaSpace, comparison.missing_in_second),
                                  join(CommaSpace, traveler_parts),
                                  join(CommaSpace, bom_parts),
                                  None)
                         ELSE IF comparison.missing_in_first # <<>>
                         THEN CheckResult("PART_NUMBER", "WARNING",
                                  <<"Part numbers in BOM but not in Traveler: ">>
                                      \o join(CommaSpace, comparison.missing_in_first),
                                  join(CommaSpace, traveler_parts),
                                  join(CommaSpace, bom_parts),
                                  None)
                         ELSE CheckResult("PART_NUMBER", "PASS",
                                  <<"Part numbers match: ">> \o join(CommaSpace, comparison.matches),
                                  join(CommaSpace, traveler_parts),
                                  join(CommaSpace, bom_parts),
                                  None)
             IN  Returns(Map(ForBom, bom_data_list))

\* the comprehension [b_rev for b_rev in bom_revisions if b_rev.startswith(t_rev[0]) if t_rev]
\* evaluates t_rev[0] for the first b_rev before it tests t_rev: IndexError on
\* an empty t_rev unless bom_revisions is empty
RevisionIndexError(t_rev, bom_revisions) == t_rev = <<>> /\ bom_revisions # <<>>

_validate_revisions(file_data, seed) ==
    LET traveler_data == file_data.traveler_data
        bom_data_list == file_data.bom_data
    IN  IF ~traveler_data.present \/ bom_data_list = <<>>
        THEN Returns(<<>>)
        ELSE LET traveler_revisions == Map(normalize_revision, traveler_data.data.revisions)
                 ForRev(t_rev, bom_revisions) ==
                     LET Matching(b_rev) == startswith(b_rev, <<t_rev[1]>>) /\ t_rev # <<>>
                         matching_bom_revs == Filter(Matching, bom_revisions)
                     IN  IF matching_bom_revs = <<>>
                         THEN CheckResult("REVISION", "FAIL",
                                  <<"Revision ">> \o t_rev \o <<" from Traveler not found in BOM">>,
                                  t_rev,
                                  join(CommaSpace, bom_revisions),
                                  None)
                         ELSE IF t_rev \notin Range(matching_bom_revs)
                         THEN CheckResult("REVISION", "WARNING",
                                  <<"Revision format difference: Traveler has ">> \o t_rev
                                      \o <<", BOM has ">> \o matching_bom_revs[1],
                                  t_rev,
                                  matching_bom_revs[1],
                                  None)
                         ELSE CheckResult("REVISION", "PASS",
                                  <<"Revision ">> \o t_rev \o <<" matches across sources">>,
                                  t_rev,
                                  t_rev,
                                  None)
                 BomRevisions(bom_data) == Map(normalize_revision, bom_data.revisions)
                 ForBom(bom_data) ==
                     LET bom_revisions == BomRevisions(bom_data)
                         Each(t_rev) == ForRev(t_rev, bom_revisions)
                     IN  Map(Each, traveler_revisions)
             IN  IF \E i \in DOMAIN bom_data_list, j \in DOMAIN traveler_revisions :
                        RevisionIndexError(traveler_revisions[j], BomRevisions(bom_data_list[i]))
                 THEN Raises
                 ELSE Returns(Concat(Map(ForBom, bom_data_list)))

\* the two sources merged instead of one preferred
TravelerSerialsMerged(traveler, key) ==
    IF key = "board_serials"
    THEN traveler.seq_20_data.board_serials \o traveler.board_serials
    ELSE traveler.seq_20_data.unit_serials \o traveler.unit_serials

\* seq_20_data.get(key, []) or traveler_data.get(key, [])
TravelerSerials(traveler, key) ==
    IF key = "board_serials"
    THEN IF traveler.seq_20_data.board_serials # <<>>
         THEN traveler.seq_20_data.board_serials ELSE traveler.board_serials
    ELSE IF traveler.seq_20_data.unit_serials # <<>>
         THEN traveler.seq_20_data.unit_serials ELSE traveler.unit_serials

_validate_board_serials(file_data, seed) ==
    LET traveler_data == file_data.traveler_data
        image_data    == file_data.image_data
    IN  IF ~traveler_data.present \/ ~image_data.present
        THEN Returns(<<CheckResult("BOARD_SERIAL", "WARNING",
                          <<"Cannot validate board serials - missing Traveler or Image data">>,
                          None, None, None)>>)
        ELSE LET traveler_serials == TravelerSerials(traveler_data.data, "board_serials")
                 image_serials    == image_data.data.board_serials
                 norm_traveler    == Map(normalize_board_serial, traveler_serials)
                 norm_image       == Map(normalize_board_serial, image_serials)
                 comparison       == compare_normalized_lists(norm_traveler, norm_image, seed)
             IN  IF comparison.matches # <<>>
                 THEN Returns(<<CheckResult("BOARD_SERIAL", "PASS",
                                   <<"Board serials match: ">> \o join(CommaSpace, comparison.matches),
                                   join(CommaSpace, norm_traveler),
                                   join(CommaSpace, norm_image),
                                   <<"Normalized VGN- prefix handling applied">>)>>)
                 ELSE Returns(<<CheckResult("BOARD_SERIAL", "FAIL",
                                   <<"Board serial mismatch between Traveler Seq 20 and Image">>,
                                   join(CommaSpace, norm_traveler),
                                   join(CommaSpace, norm_image),
                                   None)>>)

_validate_unit_serials(file_data, seed) ==
    LET traveler_data == file_data.traveler_data
        image_data    == file_data.image_data
    IN  IF ~traveler_data.present \/ ~image_data.present
        THEN Returns(<<CheckResult("UNIT_SERIAL", "WARNING",
                          <<"Cannot validate unit serials - missing Traveler or Image data">>,
                          None, None, None)>>)
        ELSE LET traveler_serials == TravelerSerials(traveler_data.data, "unit_serials")
                 image_serials    == image_data.data.unit_serials
                 norm_traveler    == Map(normalize_unit_serial, traveler_serials)
                 norm_image       == Map(normalize_unit_serial, image_serials)
                 comparison       == compare_normalized_lists(norm_traveler, norm_image, seed)
             IN  IF comparison.matches # <<>>
                 THEN Returns(<<CheckResult("UNIT_SERIAL", "PASS",
                                   <<"Unit serials match: ">> \o join(CommaSpace, comparison.matches),
                                   join(CommaSpace, norm_traveler),
                                   join(CommaSpace, norm_image),
                                   <<"Normalized INF- prefix handling applied">>)>>)
                 ELSE Returns(<<CheckResult("UNIT_SERIAL", "FAIL",
                                   <<"Unit serial mismatch between Traveler Seq 20 and Image">>,
                                   join(CommaSpace, norm_traveler),
                                   join(CommaSpace, norm_image),
                                   None)>>)

\* the Flight Status check testing the field for None only
ValidateFlightStatusNoneOnly(file_data, seed) ==
    LET image_data == file_data.image_data
    IN  IF ~image_data.present
        THEN Returns(<<CheckResult("FLIGHT_STATUS", "WARNING",
                          <<"Cannot validate flight status - no image data available">>,
                          None, None, None)>>)
        ELSE LET flight_status == image_data.data.flight_status
             IN  IF flight_status # None
                 THEN LET normalized_status == normalize_flight_status(flight_status)
                      IN  Returns(<<CheckResult("FLIGHT_STATUS", "PASS",
                                        <<"Flight status confirmed: ">> \o normalized_status,
                                        None, normalized_status, None)>>)
                 ELSE Returns(<<CheckResult("FLIGHT_STATUS", "WARNING",
                                   <<"Flight status marking not clearly detected on image">>,
                                   None, None, None)>>)

_validate_flight_status(file_data, seed) ==
    LET image_data == file_data.image_data
    IN  IF ~image_data.present
        THEN Returns(<<CheckResult("FLIGHT_STATUS", "WARNING",
                          <<"Cannot validate flight status - no image data available">>,
                          None, None, None)>>)
        ELSE LET flight_status == image_data.data.flight_status
             IN  IF flight_status # None /\ flight_status # <<>>
                 THEN LET normalized_status == normalize_flight_status(flight_status)
                      IN  Returns(<<CheckResult("FLIGHT_STATUS", "PASS",
                                        <<"Flight status confirmed: ">> \o normalized_status,
                                        None, normalized_status, None)>>)
                 ELSE Returns(<<CheckResult("FLIGHT_STATUS", "WARNING",
                                   <<"Flight status marking not clearly detected on image">>,
                                   None, None, None)>>)

\* the role lists with the BOM never reported missing
RoleNamesBomNeverMissing(has_traveler, has_image, has_bom, want) ==
    (IF has_traveler = want THEN <<<<"Traveler PDF">>>> ELSE <<>>)
    \o (IF has_image = want THEN <<<<"Product Image">>>> ELSE <<>>)
    \o (IF want THEN <<<<"BOM Excel">>>> ELSE <<>>)

\* the role names of file_types_present / missing_types, in the order the code appends them
RoleNames(has_traveler, has_image, has_bom, want) ==
    (IF has_traveler = want THEN <<<<"Traveler PDF">>>> ELSE <<>>)
    \o (IF has_image = want THEN <<<<"Product Image">>>> ELSE <<>>)
    \o (IF has_bom = want THEN <<<<"BOM Excel">>>> ELSE <<>>)

_validate_file_completeness(file_data, seed) ==
    LET has_traveler == file_data.traveler_data.present
        has_image    == file_data.image_data.present
        has_bom      == Len(file_data.bom_data) > 0
        file_types_present == RoleNames(has_traveler, has_image, has_bom, TRUE)
        missing_types      == RoleNames(has_traveler, has_image, has_bom, FALSE)
    IN  IF missing_types # <<>>
        THEN Returns(<<CheckResult("FILE_COMPLETENESS", "WARNING",
                          <<"Missing file types: ">> \o join(CommaSpace, missing_types),
                          None, None,
                          <<"Present: ">> \o join(CommaSpace, file_types_present))>>)
        ELSE Returns(<<CheckResult("FILE_COMPLETENESS", "PASS",
                          <<"All required file types present and processed successfully">>,
                          None, None, None)>>)

\* the aggregator with the two tests in the wrong order
DetermineOverallResultWarningFirst(results) ==
    LET has_fail    == \E i \in DOMAIN results : results[i].status = "FAIL"
        has_warning == \E i \in DOMAIN results : results[i].status = "WARNING"
    IN  IF has_warning THEN "WARNING"
        ELSE IF has_fail THEN "FAIL"
        ELSE "PASS"

\* the aggregator blind to warnings
DetermineOverallResultIgnoresWarnings(results) ==
    IF \E i \in DOMAIN results : results[i].status = "FAIL" THEN "FAIL" ELSE "PASS"

\* Verdict aggregator
_determine_overall_result(results) ==
    LET has_fail    == \E i \in DOMAIN results : results[i].status = "FAIL"
        has_warning == \E i \in DOMAIN results : results[i].status = "WARNING"
    IN  IF has_fail THEN "FAIL"
        ELSE IF has_warning THEN "WARNING"
        ELSE "PASS"

-----------------------------------------------------------------------------
(* Documents of a session.  The extractors are external: a field of a document *)
(* is any list of raw strings, drawn here from small pools that hold values    *)
(* equal only after normalization, values that differ, and values that         *)
(* normalize to the empty string.                                              *)

SeqsUpTo(S, n) == UNION {[1..k -> S] : k \in 0..n}

TravelerJobPool == {<<"1","2","3","4","5">>, <<"J","1","2","3","4","5">>, <<>>}
BomJobPool      == {<<"1","2","3","4","5">>, <<"9","9","9","9","9">>, <<>>}
TravelerPartPool == {<<"A","B","-","1","-","C">>, <<"a","b","_","1","_","c">>, <<"X","9">>}
BomPartPool      == {<<"A","B","-","1","-","C">>, <<"A","B","1","C">>, <<"Y","7">>}
TravelerRevPool == {<<"F">>, <<"r","e","v"," ","f">>, <<"R","E","V">>}
BomRevPool      == {<<"F">>, <<"F","2">>, <<"R","E","V">>}
TravelerSerialPool == {<<"1","2","_","3","4">>, <<"v","g","n","-","1","2","-","3","4">>, <<"5","6">>}
ImageSerialPool    == {<<"V","G","N","-","1","2","-","3","4">>, <<"1","2","-","3","4">>, <<"7","8">>}
FlightPool == {None, <<>>, <<" ">>, <<"F","L","I","G","H","T">>, <<"e","d","u">>, <<"n","o","t"," ","f","o","r"," ","f","l","i","g","h","t">>, <<"X">>}

\* the values of a fully consistent session (every category matches)
DefaultJobs    == <<<<"1","2","3","4","5">>>>
DefaultParts   == <<<<"A","B","-","1","-","C">>>>
DefaultRevs    == <<<<"F">>>>
DefaultSerials == <<<<"V","G","N","-","1","2","-","3","4">>>>
DefaultFlight  == <<"F","L","I","G","H","T">>

\* extracted_data as the extractors store it (result['success'] is True whenever
\* process_file stores it)
TravelerData(jobs, parts, revs, boards, units, seq20) ==
    [is_null |-> FALSE, success |-> TRUE, file_type |-> "TRAVELER_PDF",
     job_numbers |-> jobs, part_numbers |-> <<>>,
     board_part_numbers |-> IF parts = <<>> THEN <<>> ELSE <<Head(parts)>>,
     work_instructions |-> IF parts = <<>> THEN <<>> ELSE Tail(parts),
     board_serials |-> boards, unit_serials |-> units, revisions |-> revs,
     flight_status |-> None, seq_20_data |-> seq20]

ImageData(boards, units, flight) ==
    [is_null |-> FALSE, success |-> TRUE, file_type |-> "PRODUCT_IMAGE",
     job_numbers |-> <<>>, part_numbers |-> <<>>, board_part_numbers |-> <<>>,
     work_instructions |-> <<>>,
     board_serials |-> boards, unit_serials |-> units, revisions |-> <<>>,
     flight_status |-> flight, seq_20_data |-> NoSeq20]

BomData(jobs, parts, revs) ==
    [is_null |-> FALSE, success |-> TRUE, file_type |-> "BOM_EXCEL",
     job_numbers |-> jobs, part_numbers |-> parts, board_part_numbers |-> <<>>,
     work_instructions |-> <<>>,
     board_serials |-> <<>>, unit_serials |-> <<>>, revisions |-> revs,
     flight_status |-> None, seq_20_data |-> NoSeq20]

File(id, file_type, extracted_data) ==
    [id |-> id, file_type |-> file_type, extracted_data |-> extracted_data]

\* the rows of a session: at most one traveler, one image, two BOMs
SessionFiles(traveler, image, boms) ==
    (IF traveler = NoData THEN <<>> ELSE <<File("traveler", "TRAVELER_PDF", traveler)>>)
    \o (IF image = NoData THEN <<>> ELSE <<File("image", "PRODUCT_IMAGE", image)>>)
    \o [i \in 1..Len(boms) |-> File(IF i = 1 THEN "bom1" ELSE "bom2", "BOM_EXCEL", boms[i])]

DefaultTraveler ==
    TravelerData(DefaultJobs, DefaultParts, DefaultRevs, DefaultSerials, DefaultSerials, NoSeq20)
DefaultImage == ImageData(DefaultSerials, DefaultSerials, DefaultFlight)
DefaultBom == BomData(DefaultJobs, DefaultParts, DefaultRevs)

NoCall == [op |-> "none"]

\* what a call that has not returned yet has returned
NotReturned == [returned |-> FALSE, success |-> FALSE]

\* no workflow request in progress
NoTasks ==
    [op |-> "none", pc |-> "none", pending |-> {}, retryable |-> {}, selected |-> <<>>,
     times |-> <<>>, inside |-> {}, outcomes |-> <<>>,
     processing_result |-> NotReturned, validation_result |-> NotReturned]

\* the tables as they are once the files of a session are processed and before
\* any validation ran
Fresh(fs, seed, a) ==
    /\ files = fs
    /\ hash_seed = seed
    /\ validation_results = <<>>
    /\ overall_result = Null
    /\ runs = 0
    /\ arg = a
    /\ call = NoCall
    /\ session_status = "UPLOADING"
    /\ tasks = NoTasks

\* one category of Traveler and BOM fields varies (job_numbers, part_numbers or
\* revisions); the second BOM holds shorter lists
InitTravelerBom(category) ==
    LET TPool == IF category = "job_numbers" THEN TravelerJobPool
                 ELSE IF category = "part_numbers" THEN TravelerPartPool
                 ELSE TravelerRevPool
        BPool == IF category = "job_numbers" THEN BomJobPool
                 ELSE IF category = "part_numbers" THEN BomPartPool
                 ELSE BomRevPool
        T(l) == IF category = "job_numbers"
                THEN TravelerData(l, DefaultParts, DefaultRevs, DefaultSerials, DefaultSerials, NoSeq20)
                ELSE IF category = "part_numbers"
                THEN TravelerData(DefaultJobs, l, DefaultRevs, DefaultSerials, DefaultSerials, NoSeq20)
                ELSE TravelerData(DefaultJobs, DefaultParts, l, DefaultSerials, DefaultSerials, NoSeq20)
        B(l) == IF category = "job_numbers" THEN BomData(l, DefaultParts, DefaultRevs)
                ELSE IF category = "part_numbers" THEN BomData(DefaultJobs, l, DefaultRevs)
                ELSE BomData(DefaultJobs, DefaultParts, l)
    IN  \E seed \in HashSeeds :
        \E traveler \in {NoData} \cup {T(l) : l \in SeqsUpTo(TPool, MaxLen)} :
        \E boms \in {<<>>} \cup {<<B(l)>> : l \in SeqsUpTo(BPool, MaxLen)}
                    \cup {<<B(l1), B(l2)>> : l1 \in SeqsUpTo(BPool, MaxLen),
                                             l2 \in SeqsUpTo(BPool, MaxLen - 1)} :
            Fresh(SessionFiles(traveler, DefaultImage, boms), seed, <<>>)

\* one kind of serial varies on the Traveler (top level and Seq 20) and the Image
InitSerials(kind) ==
    LET T(top, s20) ==
            IF kind = "board_serials"
            THEN TravelerData(DefaultJobs, DefaultParts, DefaultRevs, top, DefaultSerials,
                              [NoSeq20 EXCEPT !.board_serials = s20])
            ELSE TravelerData(DefaultJobs, DefaultParts, DefaultRevs, DefaultSerials, top,
                              [NoSeq20 EXCEPT !.unit_serials = s20])
        I(l) == IF kind = "board_serials"
                THEN ImageData(l, DefaultSerials, DefaultFlight)
                ELSE ImageData(DefaultSerials, l, DefaultFlight)
    IN  \E seed \in HashSeeds :
        \E traveler \in {NoData} \cup {T(top, s20) : top \in SeqsUpTo(TravelerSerialPool, MaxLen - 1),
                                                     s20 \in SeqsUpTo(TravelerSerialPool, MaxLen - 1)} :
        \E image \in {NoData} \cup {I(l) : l \in SeqsUpTo(ImageSerialPool, MaxLen)} :
            Fresh(SessionFiles(traveler, image, <<DefaultBom>>), seed, <<>>)

\* the roles present and the Image's flight status vary
InitRoles ==
    \E seed \in HashSeeds :
    \E traveler \in {NoData, DefaultTraveler} :
    \E image \in {NoData} \cup {ImageData(DefaultSerials, DefaultSerials, f) : f \in FlightPool} :
    \E boms \in {<<>>, <<DefaultBom>>, <<DefaultBom, DefaultBom>>} :
        Fresh(SessionFiles(traveler, image, boms), seed, <<>>)

Statuses == {"PASS", "WARNING", "FAIL"}

\* any list of CheckResults, as the verdict aggregator may be handed
InitVerdict ==
    LET R(s) == CheckResult("FILE_COMPLETENESS", s, <<"finding">>, None, None, None)
    IN  \E l \in SeqsUpTo(Statuses, MaxResults) :
            Fresh(<<>>, "seed_a", Map(R, l))

-----------------------------------------------------------------------------
(* Operations *)

\* UploadedFile.extracted_data.isnot(None)
HasData(file) == file.extracted_data # NoData

ProcessedFiles == SelectSeq(files, HasData)

\* the aggregated view of the session's processed files
View == _extract_session_data(ProcessedFiles)

\* a call of one executor on the aggregated view; it touches no table
CallExecutor(op, out) ==
    /\ call' = [op |-> op, out |-> out]
    /\ UNCHANGED <<session_status, tasks, files, hash_seed, validation_results, overall_result, runs, arg>>

CallJobNumbers == CallExecutor("_validate_job_numbers", _validate_job_numbers(View, hash_seed))
CallPartNumbers == CallExecutor("_validate_part_numbers", _validate_part_numbers(View, hash_seed))
CallRevisions == CallExecutor("_validate_revisions", _validate_revisions(View, hash_seed))
CallBoardSerials == CallExecutor("_validate_board_serials", _validate_board_serials(View, hash_seed))
CallUnitSerials == CallExecutor("_validate_unit_serials", _validate_unit_serials(View, hash_seed))
CallFlightStatus == CallExecutor("_validate_flight_status", _validate_flight_status(View, hash_seed))
CallFileCompleteness ==
    CallExecutor("_validate_file_completeness", _validate_file_completeness(View, hash_seed))

\* a call of the verdict aggregator on the drawn list
CallDetermineOverallResult ==
    /\ call' = [op |-> "_determine_overall_result", out |-> _determine_overall_result(arg)]
    /\ UNCHANGED <<session_status, tasks, files, hash_seed, validation_results, overall_result, runs, arg>>

\* the executors in the order validate_session calls them
Executors(file_data, seed) ==
    <<_validate_job_numbers(file_data, seed),
      _validate_part_numbers(file_data, seed),
      _validate_revisions(file_data, seed),
      _validate_board_serials(file_data, seed),
      _validate_unit_serials(file_data, seed),
      _validate_flight_status(file_data, seed),
      _validate_file_completeness(file_data, seed)>>

Failure(error) ==
    [success |-> FALSE, error |-> error, overall_result |-> Null,
     validation_count |-> 0, results |-> <<>>]

\* the element of a one-element set
Only(S) == CHOOSE x \in S : TRUE

\* QCValidator.validate_session: the whole handler.  The session row exists.
\* An exception of an executor is caught: db.rollback() and success False.
\* outs and results are bound as elements of one-element sets, so that each is
\* computed once, as the handler's local validation_results is.
validate_session(fs, seed) ==
    IF fs = <<>>
    THEN [ret |-> Failure("No processed files found for validation"),
          rows |-> <<>>, overall |-> overall_result]
    ELSE Only({
           IF \E i \in DOMAIN outs : outs[i].raised
           THEN [ret |-> Failure("string index out of range"),
                 rows |-> <<>>, overall |-> overall_result]
           ELSE Only({
                  LET overall == _determine_overall_result(results)
                  IN  [ret |-> [success |-> TRUE, error |-> "", overall_result |-> overall,
                                validation_count |-> Len(results), results |-> results],
                       rows |-> results, overall |-> overall]
                  : results \in {Concat([i \in DOMAIN outs |-> outs[i].results])} })
           : outs \in {Executors(_extract_session_data(fs), seed)} })

ValidateSession ==
    /\ runs < MaxRuns
    /\ \E done \in {validate_session(ProcessedFiles, hash_seed)} :
           /\ validation_results' = validation_results \o done.rows
           /\ overall_result' = done.overall
           /\ call' = [op |-> "validate_session", out |-> done.ret]
    /\ runs' = runs + 1
    /\ UNCHANGED <<session_status, tasks, files, hash_seed, arg>>

-----------------------------------------------------------------------------
(* Specifications *)

\* validate_session on every session drawn
Init ==
    \/ InitTravelerBom("job_numbers")
    \/ InitTravelerBom("part_numbers")
    \/ InitTravelerBom("revisions")
    \/ InitSerials("board_serials")
    \/ InitSerials("unit_serials")
    \/ InitRoles
Next == ValidateSession
Spec == Init /\ [][Next]_vars

\* the verdict aggregator on any list of CheckResults
NextVerdict == CallDetermineOverallResult
SpecVerdict == InitVerdict /\ [][NextVerdict]_vars

\* the Job Number executor on sessions whose job numbers vary
InitJob == InitTravelerBom("job_numbers")
NextJob == CallJobNumbers
SpecJob == InitJob /\ [][NextJob]_vars

\* the Part Number executor on sessions whose part numbers vary
InitPart == InitTravelerBom("part_numbers")
NextPart == CallPartNumbers
SpecPart == InitPart /\ [][NextPart]_vars

\* the Revision executor on sessions whose revisions vary
InitRev == InitTravelerBom("revisions")
NextRev == CallRevisions
SpecRev == InitRev /\ [][NextRev]_vars

\* the two serial executors on sessions whose board or unit serials vary
InitSerial == InitSerials("board_serials") \/ InitSerials("unit_serials")
NextSerial == CallBoardSerials \/ CallUnitSerials
SpecSerial == InitSerial /\ [][NextSerial]_vars

\* the Flight Status and File Completeness executors on sessions whose roles vary
NextRoles == CallFlightStatus \/ CallFileCompleteness
SpecRoles == InitRoles /\ [][NextRoles]_vars

-----------------------------------------------------------------------------
(* Properties *)

StatusSet(results) == {results[i].status : i \in DOMAIN results}

\* the verdict the precedence Fail > Warning > Pass gives a set of statuses
Precedence(S) ==
    IF "FAIL" \in S THEN "FAIL" ELSE IF "WARNING" \in S THEN "WARNING" ELSE "PASS"

Permuted(list, p) == [i \in DOMAIN list |-> list[p[i]]]

FailResult == CheckResult("JOB_NUMBER", "FAIL", <<"finding">>, None, None, None)

\* C1: for every list L of CheckResults the verdict is FAIL if L holds a FAIL,
\* else WARNING if it holds a WARNING, else PASS (the empty list too); it is the
\* same for every permutation of L, and L with a FAIL appended gives FAIL.
C1_VerdictPrecedence ==
    call.op = "_determine_overall_result" =>
        /\ call.out = Precedence(StatusSet(arg))
        /\ \A p \in Permutations(DOMAIN arg) :
               _determine_overall_result(Permuted(arg, p)) = call.out
        /\ _determine_overall_result(Append(arg, FailResult)) = "FAIL"

\* a WARNING ahead of a FAIL and a PASS: the verdict is FAIL all the same
C1_Witness ==
    /\ call.op = "_determine_overall_result"
    /\ Len(arg) >= 3
    /\ arg[1].status = "WARNING" /\ arg[2].status = "FAIL" /\ arg[3].status = "PASS"
    /\ call.out = "FAIL"

\* the normalized values of a list, as a set
NormSet(f(_), list) == {f(list[i]) : i \in DOMAIN list}

TravelerAndBomPresent == View.traveler_data.present /\ View.bom_data # <<>>

\* C2: the Job Number check returns one FAIL when the Traveler or every BOM is
\* absent; otherwise one result per BOM bag, in BOM order, PASS exactly when a
\* normalized Traveler job number equals a normalized job number of that bag,
\* FAIL otherwise.
C2_JobNumbers ==
    call.op = "_validate_job_numbers" =>
        /\ ~call.out.raised
        /\ IF ~TravelerAndBomPresent
           THEN Len(call.out.results) = 1 /\ call.out.results[1].status = "FAIL"
           ELSE LET T == NormSet(normalize_job_number, View.traveler_data.data.job_numbers)
                    B(i) == NormSet(normalize_job_number, View.bom_data[i].job_numbers)
                IN  /\ Len(call.out.results) = Len(View.bom_data)
                    /\ \A i \in DOMAIN View.bom_data :
                          /\ call.out.results[i].check_type = "JOB_NUMBER"
                          /\ call.out.results[i].status =
                                 IF T \cap B(i) # {} THEN "PASS" ELSE "FAIL"

\* two BOM bags, the first without and the second with a matching job number,
\* where the match exists only after normalization
C2_Witness ==
    /\ call.op = "_validate_job_numbers"
    /\ TravelerAndBomPresent
    /\ Len(View.bom_data) = 2
    /\ Range(View.traveler_data.data.job_numbers) \cap Range(View.bom_data[2].job_numbers) = {}
    /\ Len(call.out.results) = 2
    /\ call.out.results[1].status = "FAIL"
    /\ call.out.results[2].status = "PASS"

\* C3: with a Traveler and a BOM present the Part Number check returns one
\* result per BOM bag: FAIL if a normalized Traveler part is missing from the
\* bag (whatever else), else WARNING if the bag holds a part the Traveler lacks,
\* else PASS (both sets empty too).
C3_PartNumbers ==
    (call.op = "_validate_part_numbers" /\ TravelerAndBomPresent) =>
        LET T == NormSet(normalize_part_number, View.traveler_data.data.part_numbers)
            B(i) == NormSet(normalize_part_number, View.bom_data[i].part_numbers)
        IN  /\ ~call.out.raised
            /\ Len(call.out.results) = Len(View.bom_data)
            /\ \A i \in DOMAIN View.bom_data :
                  /\ call.out.results[i].check_type = "PART_NUMBER"
                  /\ call.out.results[i].status =
                         IF T \ B(i) # {} THEN "FAIL"
                         ELSE IF B(i) \ T # {} THEN "WARNING"
                         ELSE "PASS"

\* a bag that only adds a part of its own is a WARNING, next to a bag that
\* misses a Traveler part and holds a part of its own, a FAIL
C3_Witness ==
    /\ call.op = "_validate_part_numbers"
    /\ TravelerAndBomPresent
    /\ Len(View.bom_data) = 2
    /\ LET T == NormSet(normalize_part_number, View.traveler_data.data.part_numbers)
           B(i) == NormSet(normalize_part_number, View.bom_data[i].part_numbers)
       IN  /\ T \ B(1) = {} /\ B(1) \ T # {}
           /\ T \ B(2) # {} /\ B(2) \ T # {}
    /\ call.out.results[1].status = "WARNING"
    /\ call.out.results[2].status = "FAIL"

\* whether some revision of S begins with the first character of t
SameFirstCharacter(t, S) == t # <<>> /\ \E b \in S : b # <<>> /\ b[1] = t[1]

\* C4: with a Traveler and a BOM present the Revision check emits, for every BOM
\* bag and every normalized Traveler revision t, exactly one result: FAIL if no
\* revision of the bag begins with t's first character, WARNING if one does but
\* t is not among the bag's revisions, PASS if t is among them.
C4_Revisions ==
    (call.op = "_validate_revisions" /\ TravelerAndBomPresent) =>
        LET trevs == Map(normalize_revision, View.traveler_data.data.revisions)
            B(i)  == NormSet(normalize_revision, View.bom_data[i].revisions)
            n     == Len(trevs)
        IN  /\ ~call.out.raised
            /\ Len(call.out.results) = Len(View.bom_data) * n
            /\ \A i \in DOMAIN View.bom_data : \A j \in 1..n :
                  call.out.results[(i - 1) * n + j].status =
                      IF ~SameFirstCharacter(trevs[j], B(i)) THEN "FAIL"
                      ELSE IF trevs[j] \notin B(i) THEN "WARNING"
                      ELSE "PASS"

SerialOps == {"_validate_board_serials", "_validate_unit_serials"}

SerialKey == IF call.op = "_validate_board_serials" THEN "board_serials" ELSE "unit_serials"

NormalizeSerial(s) ==
    IF call.op = "_validate_board_serials"
    THEN normalize_board_serial(s) ELSE normalize_unit_serial(s)

Seq20Serials == View.traveler_data.data.seq_20_data[SerialKey]
TopLevelSerials == View.traveler_data.data[SerialKey]
ImageSerials == View.image_data.data[SerialKey]

\* the Traveler's serials the check is to use
PreferredSerials == IF Seq20Serials # <<>> THEN Seq20Serials ELSE TopLevelSerials

TravelerAndImagePresent == View.traveler_data.present /\ View.image_data.present

\* C5: the Board Serial and Unit Serial checks each return exactly one result:
\* WARNING if the Traveler or the Image is absent, else PASS if the normalized
\* Traveler serials and the normalized Image serials share an element, FAIL if
\* they share none.
C5_Serials ==
    call.op \in SerialOps =>
        /\ ~call.out.raised
        /\ Len(call.out.results) = 1
        /\ call.out.results[1].check_type =
               (IF call.op = "_validate_board_serials" THEN "BOARD_SERIAL" ELSE "UNIT_SERIAL")
        /\ call.out.results[1].status =
               IF ~TravelerAndImagePresent THEN "WARNING"
               ELSE IF NormSet(NormalizeSerial, PreferredSerials)
                           \cap NormSet(NormalizeSerial, ImageSerials) # {}
                    THEN "PASS" ELSE "FAIL"

\* raw serials that differ and agree once normalized give a PASS of the unit check
C5_Witness ==
    /\ call.op = "_validate_unit_serials"
    /\ TravelerAndImagePresent
    /\ Range(PreferredSerials) # {}
    /\ Range(PreferredSerials) \cap Range(ImageSerials) = {}
    /\ call.out.results[1].status = "PASS"

\* C6: the Traveler serials compared with the Image are the Seq 20 serials
\* whenever that list is non-empty and the top-level serials otherwise, never
\* both: with Seq 20 serials present that match nothing, a top-level serial
\* that matches the Image does not make the check pass.
C6_Seq20Preferred ==
    (call.op \in SerialOps /\ TravelerAndImagePresent) =>
        /\ call.out.results[1].expected_value =
               join(CommaSpace, Map(NormalizeSerial, PreferredSerials))
        /\ (/\ Seq20Serials # <<>>
            /\ NormSet(NormalizeSerial, Seq20Serials)
                   \cap NormSet(NormalizeSerial, ImageSerials) = {})
               => call.out.results[1].status = "FAIL"
        /\ Seq20Serials = <<>> =>
               (call.out.results[1].status = "PASS"
                   <=> NormSet(NormalizeSerial, TopLevelSerials)
                           \cap NormSet(NormalizeSerial, ImageSerials) # {})

\* Seq 20 serials that match nothing next to a top-level serial that matches
C6_Witness ==
    /\ call.op = "_validate_board_serials"
    /\ TravelerAndImagePresent
    /\ Seq20Serials # <<>>
    /\ NormSet(NormalizeSerial, TopLevelSerials)
           \cap NormSet(NormalizeSerial, ImageSerials) # {}
    /\ call.out.results[1].status = "FAIL"

\* C7: the Flight Status check returns exactly one result, never FAIL: WARNING
\* if the Image is absent, PASS with the normalized status as actual_value if
\* the Image's flight status is a non-empty string, WARNING if it is empty or
\* unset.
C7_FlightStatus ==
    call.op = "_validate_flight_status" =>
        /\ ~call.out.raised
        /\ Len(call.out.results) = 1
        /\ call.out.results[1].status # "FAIL"
        /\ IF ~View.image_data.present
           THEN call.out.results[1].status = "WARNING"
           ELSE LET flight_status == View.image_data.data.flight_status
                IN  IF flight_status # None /\ flight_status # <<>>
                    THEN /\ call.out.results[1].status = "PASS"
                         /\ call.out.results[1].actual_value =
                                normalize_flight_status(flight_status)
                    ELSE call.out.results[1].status = "WARNING"

\* a lower-case EDU marking is reported as PASS with the canonical value
C7_Witness ==
    /\ call.op = "_validate_flight_status"
    /\ View.image_data.present
    /\ View.image_data.data.flight_status = <<"e","d","u">>
    /\ call.out.results[1].status = "PASS"
    /\ call.out.results[1].actual_value = EduNotForFlight

Roles == {"traveler", "image", "bom"}

RoleName(role) ==
    IF role = "traveler" THEN "Traveler PDF"
    ELSE IF role = "image" THEN "Product Image"
    ELSE "BOM Excel"

RolePresent(role) ==
    IF role = "traveler" THEN View.traveler_data.present
    ELSE IF role = "image" THEN View.image_data.present
    ELSE View.bom_data # <<>>

\* C8: the File Completeness check returns exactly one result, never FAIL: PASS
\* exactly when Traveler, Image and a BOM are all present; otherwise WARNING
\* whose description names exactly the absent roles and whose details name
\* exactly the present ones.
C8_FileCompleteness ==
    call.op = "_validate_file_completeness" =>
        /\ ~call.out.raised
        /\ Len(call.out.results) = 1
        /\ call.out.results[1].status # "FAIL"
        /\ call.out.results[1].status = "PASS" <=> \A role \in Roles : RolePresent(role)
        /\ call.out.results[1].status # "PASS" =>
              /\ call.out.results[1].status = "WARNING"
              /\ \A role \in Roles :
                    /\ RoleName(role) \in Range(call.out.results[1].description)
                           <=> ~RolePresent(role)
                    /\ RoleName(role) \in Range(call.out.results[1].details)
                           <=> RolePresent(role)

\* only the BOM is absent: a WARNING that names it missing and the two others present
C8_Witness ==
    /\ call.op = "_validate_file_completeness"
    /\ RolePresent("traveler") /\ RolePresent("image") /\ ~RolePresent("bom")
    /\ call.out.results[1].status = "WARNING"
    /\ call.out.results[1].description = <<"Missing file types: ", "BOM Excel">>
    /\ call.out.results[1].details = <<"Present: ", "Traveler PDF", ",", " ", "Product Image">>

\* Traveler, Image and one BOM present, every category equal and non-empty
\* after normalization, and a flight status on the Image
AllPresentAllMatching ==
    /\ View.traveler_data.present /\ View.image_data.present /\ Len(View.bom_data) = 1
    /\ LET t == View.traveler_data.data
           b == View.bom_data[1]
           m == View.image_data.data
           s20 == t.seq_20_data
           tb == IF s20.board_serials # <<>> THEN s20.board_serials ELSE t.board_serials
           tu == IF s20.unit_serials # <<>> THEN s20.unit_serials ELSE t.unit_serials
       IN  /\ t.job_numbers # <<>>
           /\ NormSet(normalize_job_number, t.job_numbers) = NormSet(normalize_job_number, b.job_numbers)
           /\ t.part_numbers # <<>>
           /\ NormSet(normalize_part_number, t.part_numbers) = NormSet(normalize_part_number, b.part_numbers)
           /\ t.revisions # <<>>
           /\ NormSet(normalize_revision, t.revisions) = NormSet(normalize_revision, b.revisions)
           /\ tb # <<>>
           /\ NormSet(normalize_board_serial, tb) = NormSet(normalize_board_serial, m.board_serials)
           /\ tu # <<>>
           /\ NormSet(normalize_unit_serial, tu) = NormSet(normalize_unit_serial, m.unit_serials)
           /\ m.flight_status # None /\ m.flight_status # <<>>

\* C9: on a session with Traveler, Image and one BOM whose categories all match
\* (equal, non-empty normalized sets) and an Image flight status, every
\* CheckResult of the run is PASS, the File Completeness result among them, and
\* the verdict is PASS.
C9_AllMatchingPasses ==
    (call.op = "validate_session" /\ AllPresentAllMatching) =>
        /\ call.out.success
        /\ \A i \in DOMAIN call.out.results : call.out.results[i].status = "PASS"
        /\ \E i \in DOMAIN call.out.results :
              call.out.results[i].check_type = "FILE_COMPLETENESS"
        /\ call.out.overall_result = "PASS"
        /\ overall_result = "PASS"

\* C10: the report is total: validate_session on a session with at least one
\* processed file, whatever strings its fields hold, returns success with a
\* report and a verdict (no executor raises).
C10_ReportTotal ==
    (call.op = "validate_session" /\ ProcessedFiles # <<>>) =>
        /\ call.out.success
        /\ call.out.validation_count = Len(call.out.results)
        /\ call.out.overall_result \in Statuses

-----------------------------------------------------------------------------
(* Missing input *)

\* the six executors that require a document role, on sessions whose roles vary
NextMissing ==
    \/ CallJobNumbers \/ CallPartNumbers \/ CallRevisions
    \/ CallBoardSerials \/ CallUnitSerials \/ CallFlightStatus
SpecMissing == InitRoles /\ [][NextMissing]_vars

\* the roles each executor requires
RequiredRoles(op) ==
    IF op \in {"_validate_job_numbers", "_validate_part_numbers", "_validate_revisions"}
    THEN {"traveler", "bom"}
    ELSE IF op \in {"_validate_board_serials", "_validate_unit_serials"}
    THEN {"traveler", "image"}
    ELSE IF op = "_validate_flight_status" THEN {"image"}
    ELSE {}

\* C11: when a role an executor requires is absent, the executor returns at
\* least one CheckResult, each WARNING or FAIL and none PASS.
C11_MissingInputSurfaced ==
    (\E role \in RequiredRoles(call.op) : ~RolePresent(role)) =>
        /\ ~call.out.raised
        /\ call.out.results # <<>>
        /\ \A i \in DOMAIN call.out.results :
              call.out.results[i].status \in {"WARNING", "FAIL"}

-----------------------------------------------------------------------------
(* The stored verdict: uploads, processing, validation, clearing, deletion *)

\* a BOM of another job
MismatchBom == BomData(<<<<"9","9","9","9","9">>>>, DefaultParts, DefaultRevs)

\* what an extractor may store for a file of a type
Extracted(file_type) ==
    IF file_type = "TRAVELER_PDF" THEN {DefaultTraveler}
    ELSE IF file_type = "PRODUCT_IMAGE" THEN {DefaultImage}
    ELSE {DefaultBom, MismatchBom}

FileTypes == {"TRAVELER_PDF", "PRODUCT_IMAGE", "BOM_EXCEL"}

UsedIds == {files[i].id : i \in DOMAIN files}

\* upload_files, one file: a row with a fresh id and no extracted data
UploadFile ==
    /\ Len(files) < MaxFiles
    /\ \E file_type \in FileTypes :
       \E id \in {n \in 1..MaxFiles : n \notin UsedIds /\ \A k \in 1..(n - 1) : k \in UsedIds} :
           files' = Append(files, File(id, file_type, NoData))
    /\ call' = [op |-> "upload_files"]
    /\ UNCHANGED <<session_status, tasks, hash_seed, validation_results, overall_result, runs, arg>>

\* process_file on a pending file: extracted_data is stored when the extractor
\* succeeds and stays NULL when it fails
ProcessFile ==
    /\ \E i \in DOMAIN files :
          /\ files[i].extracted_data = NoData
          /\ \E result \in Extracted(files[i].file_type) \cup {NoData} :
                files' = [files EXCEPT ![i].extracted_data = result]
    /\ call' = [op |-> "process_file"]
    /\ UNCHANGED <<session_status, tasks, hash_seed, validation_results, overall_result, runs, arg>>

\* delete_file: the row goes, the validation rows stay
DeleteFile ==
    /\ \E i \in DOMAIN files :
          files' = SubSeq(files, 1, i - 1) \o SubSeq(files, i + 1, Len(files))
    /\ call' = [op |-> "delete_file"]
    /\ UNCHANGED <<session_status, tasks, hash_seed, validation_results, overall_result, runs, arg>>

\* clear_validation_results: the session's rows go and the verdict is reset
ClearValidationResults ==
    /\ validation_results # <<>> \/ overall_result # Null
    /\ validation_results' = <<>>
    /\ overall_result' = Null
    /\ call' = [op |-> "clear_validation_results"]
    /\ UNCHANGED <<session_status, tasks, files, hash_seed, runs, arg>>

\* an empty session
InitStore == Fresh(<<>>, "seed_a", <<>>)
NextStore ==
    \/ UploadFile \/ ProcessFile \/ ValidateSession \/ ClearValidationResults \/ DeleteFile
SpecStore == InitStore /\ [][NextStore]_vars

\* C12: whenever the stored overall_result is set, it is the verdict
\* (Fail > Warning > Pass) of exactly the validation rows stored for the session.
C12_StoredVerdictMatchesRows ==
    overall_result # Null => overall_result = Precedence(StatusSet(validation_results))

-----------------------------------------------------------------------------
(* Determinism *)

\* C13: a run of the seven executors and the verdict aggregator on a session
\* gives the same report (the same CheckResults, field by field, and the same
\* verdict) whatever order the process's hash seed gives the elements of a set.
C13_Deterministic ==
    call.op = "validate_session" =>
        \A seed \in HashSeeds : validate_session(ProcessedFiles, seed).ret = call.out

-----------------------------------------------------------------------------
(* Independence of the executors *)

ExecutorNames ==
    <<"_validate_job_numbers", "_validate_part_numbers", "_validate_revisions",
      "_validate_board_serials", "_validate_unit_serials", "_validate_flight_status",
      "_validate_file_completeness">>

\* the aggregated view after an executor ran on it, where the executor consumes
\* the BOM bags it read
FileDataAfterBomsConsumed(op, file_data) ==
    IF op = "_validate_job_numbers" THEN [file_data EXCEPT !.bom_data = <<>>] ELSE file_data

\* the aggregated view after an executor ran on it: the executors and the
\* comparator read file_data through .get and build new lists and sets; none
\* assigns into it
FileDataAfter(op, file_data) == file_data

\* an executor by its name
RunExecutor(op, file_data, seed) ==
    IF op = "_validate_job_numbers" THEN _validate_job_numbers(file_data, seed)
    ELSE IF op = "_validate_part_numbers" THEN _validate_part_numbers(file_data, seed)
    ELSE IF op = "_validate_revisions" THEN _validate_revisions(file_data, seed)
    ELSE IF op = "_validate_board_serials" THEN _validate_board_serials(file_data, seed)
    ELSE IF op = "_validate_unit_serials" THEN _validate_unit_serials(file_data, seed)
    ELSE IF op = "_validate_flight_status" THEN _validate_flight_status(file_data, seed)
    ELSE _validate_file_completeness(file_data, seed)

\* the executors run one at a time in any order on one aggregated view; arg
\* holds the view they share and, in order of completion, the list each
\* finished executor returned
InitOrder ==
    \E traveler \in {NoData, DefaultTraveler} :
    \E image \in {NoData, DefaultImage} :
    \E boms \in {<<>>, <<MismatchBom, DefaultBom>>} :
        LET fs == SessionFiles(traveler, image, boms)
        IN  Fresh(fs, "seed_a", [file_data |-> _extract_session_data(fs), returned |-> <<>>])

Finished == {arg.returned[j].op : j \in DOMAIN arg.returned}

StepExecutor ==
    /\ \E op \in Range(ExecutorNames) \ Finished :
       \E out \in {RunExecutor(op, arg.file_data, hash_seed)} :
          /\ arg' = [file_data |-> FileDataAfter(op, arg.file_data),
                     returned  |-> Append(arg.returned, [op |-> op, results |-> out.results])]
          /\ call' = [op |-> op, out |-> out]
    /\ UNCHANGED <<session_status, tasks, files, hash_seed, validation_results, overall_result, runs>>

\* the verdict over the returned lists, concatenated in the order of completion
GatherVerdict ==
    /\ Finished = Range(ExecutorNames)
    /\ call.op # "_determine_overall_result"
    /\ call' = [op |-> "_determine_overall_result",
                out |-> _determine_overall_result(
                            Concat([j \in DOMAIN arg.returned |-> arg.returned[j].results]))]
    /\ UNCHANGED <<session_status, tasks, files, hash_seed, validation_results, overall_result, runs, arg>>

NextOrder == StepExecutor \/ GatherVerdict
SpecOrder == InitOrder /\ [][NextOrder]_vars

\* the CheckResults of the fixed sequential order on the session's view
SequentialResults ==
    Concat([k \in DOMAIN ExecutorNames |->
               RunExecutor(ExecutorNames[k], View, hash_seed).results])

-----------------------------------------------------------------------------
(* The comparator on its own *)

ComparePool == {<<"A">>, <<"B">>, <<"A", "B">>}

\* compare_normalized_lists on any two lists of the pool, duplicates included
InitCompare ==
    \E seed \in HashSeeds :
    \E list1 \in SeqsUpTo(ComparePool, MaxLen) :
    \E list2 \in SeqsUpTo(ComparePool, MaxLen) :
        Fresh(<<>>, seed, <<list1, list2>>)

CallCompare ==
    /\ call' = [op |-> "compare_normalized_lists",
                out |-> compare_normalized_lists(arg[1], arg[2], hash_seed)]
    /\ UNCHANGED <<session_status, tasks, files, hash_seed, validation_results, overall_result, runs, arg>>

NextCompare == CallCompare
SpecCompare == InitCompare /\ [][NextCompare]_vars

\* a list without repeated elements
NoDuplicates(list) == Cardinality(Range(list)) = Len(list)

\* C15: compare_normalized_lists(A, B) treats A and B as sets: matches is
\* A \cap B, missing_in_second is A \ B, missing_in_first is B \ A (each listed
\* without duplicates), the three counts are the cardinalities of matches, A and
\* B, and match_percentage is 100 when both are empty; swapping the arguments
\* keeps the matches and exchanges missing_in_first with missing_in_second.
C15_ComparatorSets ==
    call.op = "compare_normalized_lists" =>
        LET A == Range(arg[1])
            B == Range(arg[2])
            swapped == compare_normalized_lists(arg[2], arg[1], hash_seed)
        IN  /\ Range(call.out.matches) = A \cap B
            /\ Range(call.out.missing_in_second) = A \ B
            /\ Range(call.out.missing_in_first) = B \ A
            /\ NoDuplicates(call.out.matches)
            /\ NoDuplicates(call.out.missing_in_second)
            /\ NoDuplicates(call.out.missing_in_first)
            /\ call.out.match_count = Cardinality(A \cap B)
            /\ call.out.total_unique_first = Cardinality(A)
            /\ call.out.total_unique_second = Cardinality(B)
            /\ (A = {} /\ B = {}) => call.out.match_percentage = <<100, 1>>
            /\ Range(swapped.matches) = Range(call.out.matches)
            /\ Range(swapped.missing_in_first) = Range(call.out.missing_in_second)
            /\ Range(swapped.missing_in_second) = Range(call.out.missing_in_first)

\* a repeated element on the left and the elements in another order on the
\* right: one match, counted once
C15_Witness ==
    /\ call.op = "compare_normalized_lists"
    /\ arg[1] = <<<<"A">>, <<"A">>>>
    /\ arg[2] = <<<<"B">>, <<"A">>>>
    /\ call.out.matches = <<<<"A">>>>
    /\ call.out.missing_in_first = <<<<"B">>>>
    /\ call.out.total_unique_first = 1
    /\ call.out.match_percentage = <<100, 2>>

-----------------------------------------------------------------------------
(* The normalizers on their own *)

\* pieces of raw field values: prefixes, separators, whitespace, digit runs,
\* letters in both cases and the words the normalizers look for
TokenPool ==
    {<<"v","g","n">>, <<"I","N","F">>, <<"a","b">>, <<"C">>, <<"-">>, <<"_">>, <<" ">>,
     <<"1">>, <<"5","4","3","2","1">>, <<"e","d","u">>, <<"f","l","i","g","h","t">>,
     <<"n","o","t"," ","f","o","r"," ">>, <<"r","e","v">>}

\* the raw serials of the specification's normalization scenario
ExampleStrings ==
    {<<"5","4","3","2","1","_","1","2","3","4">>, <<"4","3","2","1">>}

\* not-for-flight markings written with underscores or hyphens between the words
FlightMarkings ==
    {<<"N","O","T","_","F","O","R","_","F","L","I","G","H","T">>,
     <<"n","o","t","-","f","o","r","-","f","l","i","g","h","t">>}

RawStrings ==
    {Concat(ts) : ts \in SeqsUpTo(TokenPool, MaxTokens)} \cup ExampleStrings \cup FlightMarkings

InitNormalize == \E s \in RawStrings : Fresh(<<>>, "seed_a", s)

CallNormalize(op, out) ==
    /\ call' = [op |-> op, out |-> out]
    /\ UNCHANGED <<session_status, tasks, files, hash_seed, validation_results, overall_result, runs, arg>>

CallNormalizeBoardSerial == CallNormalize("normalize_board_serial", normalize_board_serial(arg))
CallNormalizeUnitSerial == CallNormalize("normalize_unit_serial", normalize_unit_serial(arg))
CallNormalizePartNumber == CallNormalize("normalize_part_number", normalize_part_number(arg))
CallNormalizeRevision == CallNormalize("normalize_revision", normalize_revision(arg))
CallNormalizeJobNumber == CallNormalize("normalize_job_number", normalize_job_number(arg))
CallNormalizeFlightStatus ==
    CallNormalize("normalize_flight_status", normalize_flight_status(arg))

NextNormalize ==
    \/ CallNormalizeBoardSerial \/ CallNormalizeUnitSerial \/ CallNormalizePartNumber
    \/ CallNormalizeRevision \/ CallNormalizeJobNumber \/ CallNormalizeFlightStatus
SpecNormalize == InitNormalize /\ [][NextNormalize]_vars

\* a normalizer by its name
Normalize(op, s) ==
    IF op = "normalize_board_serial" THEN normalize_board_serial(s)
    ELSE IF op = "normalize_unit_serial" THEN normalize_unit_serial(s)
    ELSE IF op = "normalize_part_number" THEN normalize_part_number(s)
    ELSE IF op = "normalize_revision" THEN normalize_revision(s)
    ELSE IF op = "normalize_job_number" THEN normalize_job_number(s)
    ELSE normalize_flight_status(s)

FiveNormalizers ==
    {"normalize_board_serial", "normalize_unit_serial", "normalize_part_number",
     "normalize_job_number", "normalize_flight_status"}

\* C16: board serial, unit serial, part number, job number and flight status
\* normalization are idempotent: f(f(s)) = f(s).
C16_Idempotent ==
    call.op \in FiveNormalizers => Normalize(call.op, call.out) = call.out

\* a raw serial that normalization rewrites (prefix added, case and separator
\* changed), and whose normal form normalizes to itself
C16_Witness ==
    /\ call.op = "normalize_board_serial"
    /\ arg = <<"a","b","5","4","3","2","1","_">>
    /\ call.out = <<"V","G","N","-","5","4","3","2","1","-">>
    /\ normalize_board_serial(call.out) = call.out

\* C17: revision normalization is idempotent, inputs with REV repeated included.
C17_RevisionIdempotent ==
    call.op = "normalize_revision" => normalize_revision(call.out) = call.out

\* s with every upper-case letter in lower case
lower(s) ==
    [i \in 1..Len(s) |->
        IF \E j \in DOMAIN UpperSeq : UpperSeq[j] = s[i]
        THEN LowerSeq[CHOOSE j \in DOMAIN UpperSeq : UpperSeq[j] = s[i]]
        ELSE s[i]]

\* s with the case of its letters changed, with whitespace added in front or
\* behind, or with its hyphens written as underscores
Variants(s) ==
    {upper(s), lower(s), <<" ">> \o s, s \o <<" ">>, replace(s, "-", "_")}

\* C18: each of the six normalizers gives a string and its variants in case,
\* surrounding whitespace and hyphen/underscore the same normal form.
C18_Tolerant ==
    call.op \in FiveNormalizers \cup {"normalize_revision"} =>
        \A v \in Variants(arg) : Normalize(call.op, v) = call.out

\* the prefix a serial normalizer adds
SerialPrefix(op) ==
    IF op = "normalize_board_serial" THEN <<"V","G","N">> ELSE <<"I","N","F">>

\* trimmed, upper-cased, '_' written as '-'
Cleaned(s) == replace(upper(strip(s)), "_", "-")

\* a digit run, then at most one hyphen, then digits only
NumberForm(x) ==
    /\ x # <<>> /\ IsDigit(x[1])
    /\ \A i \in DOMAIN x : IsDigit(x[i]) \/ x[i] = "-"
    /\ Cardinality({i \in DOMAIN x : x[i] = "-"}) <= 1

\* C19: for a non-empty raw serial with cleaned form c and prefix P: c itself if
\* c begins with P-; otherwise, if c holds a digit, P- followed by the longest
\* number form (digit run, at most one hyphen, digits) that starts at the first
\* digit of c; otherwise c.  54321_1234 gives VGN-54321-1234, 4321 gives INF-4321.
C19_SerialNormalForm ==
    (call.op \in {"normalize_board_serial", "normalize_unit_serial"} /\ arg # <<>>) =>
        LET P == SerialPrefix(call.op) \o <<"-">>
            c == Cleaned(arg)
            digits == {i \in DOMAIN c : IsDigit(c[i])}
        IN  /\ startswith(c, P) => call.out = c
            /\ (~startswith(c, P) /\ digits = {}) => call.out = c
            /\ (~startswith(c, P) /\ digits # {}) =>
                  \E i \in digits : \E j \in i..Len(c) :
                      /\ \A k \in digits : i <= k
                      /\ NumberForm(SubSeq(c, i, j))
                      /\ \A n \in (j + 1)..Len(c) : ~NumberForm(SubSeq(c, i, n))
                      /\ call.out = P \o SubSeq(c, i, j)
            /\ (call.op = "normalize_board_serial"
                  /\ arg = <<"5","4","3","2","1","_","1","2","3","4">>) =>
                  call.out = <<"V","G","N","-","5","4","3","2","1","-","1","2","3","4">>
            /\ (call.op = "normalize_unit_serial" /\ arg = <<"4","3","2","1">>) =>
                  call.out = <<"I","N","F","-","4","3","2","1">>

\* a raw serial with letters before and after its number: only the number is kept
C19_Witness ==
    /\ call.op = "normalize_unit_serial"
    /\ arg = <<"a","b","1","C">>
    /\ call.out = <<"I","N","F","-","1">>

\* c as a whole is letters, digits and a suffix of one letter with at most one
\* digit, the three separated by at most one hyphen each; the three parts
PartForm(c) ==
    {<<SubSeq(c, 1, a), SubSeq(c, d, b), SubSeq(c, l, Len(c))>> :
        <<a, d, b, l>> \in
            {q \in (1..Len(c)) \X (1..Len(c)) \X (1..Len(c)) \X (1..Len(c)) :
                /\ \A k \in 1..q[1] : IsUpper(c[k])
                /\ q[2] = q[1] + 1 \/ (q[2] = q[1] + 2 /\ c[q[1] + 1] = "-")
                /\ q[2] <= q[3]
                /\ \A k \in q[2]..q[3] : IsDigit(c[k])
                /\ q[4] = q[3] + 1 \/ (q[4] = q[3] + 2 /\ q[3] + 1 <= Len(c) /\ c[q[3] + 1] = "-")
                /\ q[4] <= Len(c) /\ IsUpper(c[q[4]])
                /\ Len(c) = q[4] \/ (Len(c) = q[4] + 1 /\ IsDigit(c[Len(c)]))}}

\* C20: with c the cleaned part number: if c as a whole has the part form, the
\* result is PREFIX-NUMBER-SUFFIX; for every other c the result is c itself.
C20_PartNormalForm ==
    (call.op = "normalize_part_number" /\ arg # <<>>) =>
        LET c == Cleaned(arg)
        IN  IF PartForm(c) # {}
            THEN \E parts \in PartForm(c) :
                     call.out = parts[1] \o <<"-">> \o parts[2] \o <<"-">> \o parts[3]
            ELSE call.out = c

-----------------------------------------------------------------------------
(* Flight status canonical forms *)

\* s with the hyphens and underscores between its words written as spaces
SpacedWords(s) == replace(replace(upper(s), "_", " "), "-", " ")

\* the marking says not-for-flight, whatever separates the three words
SaysNotForFlight(s) == contains(SpacedWords(s), NotForFlight)

\* C21: for a non-empty s the result is EDU - NOT FOR FLIGHT exactly when
\* upper-cased s contains EDU or NOT FOR FLIGHT; otherwise FLIGHT exactly when it
\* contains FLIGHT; otherwise trimmed upper-cased s.  A marking that says
\* not-for-flight, with underscores or hyphens between the words too, never
\* becomes FLIGHT.
C21_FlightStatusCanonical ==
    (call.op = "normalize_flight_status" /\ arg # <<>>) =>
        LET u == upper(arg)
            edu == contains(u, <<"E","D","U">>) \/ contains(u, NotForFlight)
        IN  /\ call.out = EduNotForFlight <=> edu
            /\ ~edu => (call.out = Flight <=> contains(u, Flight))
            /\ (~edu /\ ~contains(u, Flight)) => call.out = strip(u)
            /\ SaysNotForFlight(arg) => call.out # Flight

-----------------------------------------------------------------------------
(* Reported values of the Job Number check *)

\* C22: a Job Number FAIL for a BOM bag with no matching job number reports as
\* expected_value the Traveler's raw job-number strings joined with ', ' and as
\* actual_value that bag's raw job-number strings joined with ', '.
C22_JobNumberRawValues ==
    (call.op = "_validate_job_numbers" /\ TravelerAndBomPresent /\ ~call.out.raised) =>
        \A i \in DOMAIN call.out.results :
            call.out.results[i].status = "FAIL" =>
                /\ call.out.results[i].expected_value =
                       join(CommaSpace, View.traveler_data.data.job_numbers)
                /\ call.out.results[i].actual_value =
                       join(CommaSpace, View.bom_data[i].job_numbers)

-----------------------------------------------------------------------------
(* Fuzzy matching: find_best_matches over difflib's similarity ratio *)

\* the equal blocks a[i..i+k-1] = b[j..j+k-1] inside a[alo..ahi] and b[blo..bhi]
Blocks(a, alo, ahi, b, blo, bhi) ==
    {m \in (alo..ahi) \X (blo..bhi) \X (1..(ahi - alo + 1)) :
        /\ m[1] + m[3] - 1 <= ahi
        /\ m[2] + m[3] - 1 <= bhi
        /\ \A n \in 0..(m[3] - 1) : a[m[1] + n] = b[m[2] + n]}

\* SequenceMatcher.find_longest_match with no junk: the longest block, of those
\* the one starting earliest in a, of those the one starting earliest in b
find_longest_match(a, alo, ahi, b, blo, bhi) ==
    CHOOSE m \in Blocks(a, alo, ahi, b, blo, bhi) :
        \A o \in Blocks(a, alo, ahi, b, blo, bhi) :
            \/ m[3] > o[3]
            \/ m[3] = o[3] /\ m[1] < o[1]
            \/ m[3] = o[3] /\ m[1] = o[1] /\ m[2] <= o[2]

\* the summed size of get_matching_blocks: the longest block, then the same to
\* its left and to its right
RECURSIVE MatchedCount(_, _, _, _, _, _)
MatchedCount(a, alo, ahi, b, blo, bhi) ==
    IF Blocks(a, alo, ahi, b, blo, bhi) = {} THEN 0
    ELSE LET m == find_longest_match(a, alo, ahi, b, blo, bhi)
         IN  m[3] + MatchedCount(a, alo, m[1] - 1, b, blo, m[2] - 1)
                  + MatchedCount(a, m[1] + m[3], ahi, b, m[2] + m[3], bhi)

\* SequenceMatcher(None, a, b).ratio() as the fraction <<numerator, denominator>>:
\* 2.0 * matches / (len(a) + len(b)), and 1.0 for two empty strings
ratio(a, b) ==
    IF Len(a) + Len(b) = 0 THEN <<1, 1>>
    ELSE <<2 * MatchedCount(a, 1, Len(a), b, 1, Len(b)), Len(a) + Len(b)>>

\* comparison of two fractions
FracLess(x, y) == x[1] * y[2] < y[1] * x[2]
FracLeq(x, y) == x[1] * y[2] <= y[1] * x[2]

\* the inner loop over items2 from position k on, with the best so far
RECURSIVE BestMatchFrom(_, _, _, _, _)
BestMatchFrom(item1, items2, threshold, k, best) ==
    IF k > Len(items2) THEN best
    ELSE LET item2 == items2[k]
             r == ratio(lower(item1), lower(item2))
         IN  BestMatchFrom(item1, items2, threshold, k + 1,
                 IF FracLess(best.best_ratio, r) /\ FracLeq(threshold, r)
                 THEN [best_match |-> item2, best_ratio |-> r]
                 ELSE best)

\* truth value of best_match: None and the empty string are false
Truthy(x) == x # None /\ x # <<>>

find_best_matches(items1, items2, threshold) ==
    LET ForItem(item1) ==
            LET best == BestMatchFrom(item1, items2, threshold, 1,
                                      [best_match |-> None, best_ratio |-> <<0, 1>>])
            IN  IF Truthy(best.best_match)
                THEN <<<<item1, best.best_match, best.best_ratio>>>>
                ELSE <<>>
    IN  Concat(Map(ForItem, items1))

\* strings to match: equal up to case, overlapping, disjoint, and empty
MatchPool == {<<>>, <<"a","b">>, <<"A","B">>, <<"a","b","c">>, <<"x">>}

\* thresholds 0.0, 0.5, 0.8 (the default) and 1.0
Thresholds == {<<0, 1>>, <<1, 2>>, <<4, 5>>, <<1, 1>>}

InitMatch ==
    \E items1 \in SeqsUpTo(MatchPool, MaxLen) : \E items2 \in SeqsUpTo(MatchPool, MaxLen) :
    \E threshold \in Thresholds :
        Fresh(<<>>, "seed_a", [items1 |-> items1, items2 |-> items2, threshold |-> threshold])

CallFindBestMatches ==
    /\ call' = [op |-> "find_best_matches",
                out |-> find_best_matches(arg.items1, arg.items2, arg.threshold)]
    /\ UNCHANGED <<session_status, tasks, files, hash_seed, validation_results, overall_result, runs, arg>>

NextMatch == CallFindBestMatches
SpecMatch == InitMatch /\ [][NextMatch]_vars

\* the similarity of two items, case ignored
Similarity(a, b) == ratio(lower(a), lower(b))

\* the positions of items1 that have an item of items2 at or above the threshold
Matched(items1, items2, threshold) ==
    {i \in DOMAIN items1 :
        \E j \in DOMAIN items2 : FracLeq(threshold, Similarity(items1[i], items2[j]))}

\* C23: the result holds one tuple per element a of items1 that has some b of
\* items2 with similarity >= threshold, in items1's order, and no other tuple;
\* the tuple's b is the first element of items2 with the maximum similarity to
\* a, and its score is that similarity.
C23_BestMatches ==
    call.op = "find_best_matches" =>
        LET A == arg.items1
            B == arg.items2
            Q == Matched(A, B, arg.threshold)
        IN  /\ Len(call.out) = Cardinality(Q)
            /\ \A n \in DOMAIN call.out :
                  \E i \in Q : \E j \in DOMAIN B :
                      /\ Cardinality({q \in Q : q <= i}) = n
                      /\ \A k \in DOMAIN B : FracLeq(Similarity(A[i], B[k]), Similarity(A[i], B[j]))
                      /\ \A k \in 1..(j - 1) : FracLess(Similarity(A[i], B[k]), Similarity(A[i], B[j]))
                      /\ call.out[n] = <<A[i], B[j], Similarity(A[i], B[j])>>

-----------------------------------------------------------------------------
(* The processing workflow: FileProcessor.process_file and                   *)
(* process_session_files, QCWorkflow.run_complete_analysis and               *)
(* retry_failed_processing, POST /process/{session_id} and its background    *)
(* task.  One request runs per behaviour, on a session in any state a        *)
(* history of uploads and processing leaves.                                 *)

\* most PENDING files of a session that is processed concurrently
MaxPending == 4

\* a semaphore that admits one coroutine more
ConcurrencyLimitFour == 3 + 1

\* asyncio.Semaphore(3) in process_session_files
ConcurrencyLimit == 3

\* session.status after an except block that leaves the row as it is
ExceptStatusKept(current) == current

\* session.status after the except block of run_complete_analysis
ExceptStatus(current) == "FAILED"

\* an uploaded_files row with its processing columns
UploadedFile(id, file_type, processing_status, processing_error, extracted_data) ==
    [id |-> id, file_type |-> file_type, extracted_data |-> extracted_data,
     processing_status |-> processing_status, processing_error |-> processing_error]

\* a Traveler whose revision normalizes to the empty string: with a BOM that
\* holds revisions the Revision executor raises and validation fails
BadRevisionTraveler ==
    TravelerData(DefaultJobs, DefaultParts, <<<<"R","E","V">>>>, DefaultSerials, DefaultSerials,
                 NoSeq20)

\* what the extractor of a file type can return with success True
ExtractedData(file_type) ==
    Extracted(file_type) \cup (IF file_type = "TRAVELER_PDF" THEN {BadRevisionTraveler} ELSE {})

\* how the extractor call in process_file can end: a result with success True,
\* a result with success False, an exception
ExtractorOutcomes(file_type) ==
    {[kind |-> "success", data |-> d] : d \in ExtractedData(file_type)}
        \cup {[kind |-> "failure", data |-> NoData], [kind |-> "exception", data |-> NoData]}

\* the row as process_file commits it when the extractor call has ended
ProcessFileResult(row, outcome) ==
    IF outcome.kind = "success"
    THEN [row EXCEPT !.extracted_data = outcome.data, !.processing_status = "COMPLETED"]
    ELSE [row EXCEPT !.processing_error =
                         IF outcome.kind = "failure" THEN "error of the result" ELSE "str(e)",
                     !.processing_status = "FAILED"]

\* the rows a file of one type can be: never processed, processed, failed
RowsOf(file_type) ==
    {UploadedFile(0, file_type, "PENDING", Null, NoData),
     UploadedFile(0, file_type, "FAILED", "error of the result", NoData)}
        \cup {UploadedFile(0, file_type, "COMPLETED", Null, d) : d \in ExtractedData(file_type)}

\* rows numbered in query order
WithIds(rows) == [i \in DOMAIN rows |-> [rows[i] EXCEPT !.id = i]]

\* sessions with at most one file of each type, in every processing state
MixedSessions ==
    {WithIds(t \o i \o b) :
        t \in {<<>>} \cup {<<r>> : r \in RowsOf("TRAVELER_PDF")},
        i \in {<<>>} \cup {<<r>> : r \in RowsOf("PRODUCT_IMAGE")},
        b \in {<<>>} \cup {<<r>> : r \in RowsOf("BOM_EXCEL")}}

\* sessions of freshly uploaded files of any types
PendingSessions ==
    {WithIds([k \in DOMAIN ts |-> UploadedFile(0, ts[k], "PENDING", Null, NoData)]) :
        ts \in SeqsUpTo(FileTypes, MaxPending)}

InitWorkflow == \E fs \in MixedSessions \cup PendingSessions : Fresh(fs, "seed_a", <<>>)

PendingIds == {i \in DOMAIN files : files[i].processing_status = "PENDING"}

\* run_complete_analysis up to its await: the session exists, its status is
\* set to PROCESSING and committed
RunCompleteAnalysis ==
    /\ tasks.op = "none"
    /\ session_status' = "PROCESSING"
    /\ tasks' = [NoTasks EXCEPT !.op = "run_complete_analysis", !.pc = "query",
                                !.pending = PendingIds]
    /\ UNCHANGED <<files, hash_seed, validation_results, overall_result, runs, arg, call>>

\* process_session_files up to the gather: the query for PENDING files, which
\* may raise; the early return when it finds none holds no failed_count
QueryPendingFiles ==
    /\ tasks.pc = "query"
    /\ \E raises \in BOOLEAN :
          tasks' =
              IF raises
              THEN [tasks EXCEPT !.pc = "processed",
                        !.processing_result =
                            [returned |-> TRUE, success |-> FALSE, error |-> "str(e)"]]
              ELSE IF PendingIds = {}
              THEN [tasks EXCEPT !.pc = "processed",
                        !.processing_result =
                            [returned |-> TRUE, success |-> TRUE,
                             message |-> "No files to process", processed_count |-> 0]]
              ELSE [tasks EXCEPT !.pc = "gather",
                        !.selected = SelectSeq([i \in DOMAIN files |-> i],
                                               LAMBDA i : i \in PendingIds),
                        !.times = [i \in PendingIds |-> 0]]
    /\ UNCHANGED <<files, hash_seed, validation_results, overall_result, runs, arg, call,
                   session_status>>

\* the task of file id is the next to take the semaphore (tasks start in the
\* order of the list, waiters are woken first in first out) and the semaphore
\* is free
CanStart(id) ==
    /\ tasks.pc = "gather"
    /\ \E k \in DOMAIN tasks.selected :
          /\ tasks.selected[k] = id
          /\ tasks.times[id] = 0
          /\ \A j \in 1..(k - 1) : tasks.times[tasks.selected[j]] > 0
    /\ Cardinality(tasks.inside) < ConcurrencyLimit

\* process_file on a Traveler or a BOM: no await inside, so the coroutine runs
\* from taking the semaphore to releasing it in one piece
ProcessFileSync ==
    /\ \E id \in DOMAIN files :
          /\ CanStart(id)
          /\ files[id].file_type # "PRODUCT_IMAGE"
          /\ \E outcome \in ExtractorOutcomes(files[id].file_type) :
                /\ files' = [files EXCEPT ![id] = ProcessFileResult(@, outcome)]
                /\ tasks' = [tasks EXCEPT !.times[id] = @ + 1,
                                 !.outcomes = (id :> (outcome.kind = "success")) @@ @]
    /\ UNCHANGED <<hash_seed, validation_results, overall_result, runs, arg, call,
                   session_status>>

\* process_file on an Image up to the await of the vision call: status
\* PROCESSING is committed and the coroutine is suspended holding the semaphore
ProcessFileStart ==
    /\ \E id \in DOMAIN files :
          /\ CanStart(id)
          /\ files[id].file_type = "PRODUCT_IMAGE"
          /\ files' = [files EXCEPT ![id].processing_status = "PROCESSING"]
          /\ tasks' = [tasks EXCEPT !.times[id] = @ + 1, !.inside = @ \cup {id}]
    /\ UNCHANGED <<hash_seed, validation_results, overall_result, runs, arg, call,
                   session_status>>

\* process_file on an Image from the end of the vision call to its return
ProcessFileFinish ==
    /\ \E id \in tasks.inside :
       \E outcome \in ExtractorOutcomes(files[id].file_type) :
          /\ files' = [files EXCEPT ![id] = ProcessFileResult(@, outcome)]
          /\ tasks' = [tasks EXCEPT !.inside = @ \ {id},
                           !.outcomes = (id :> (outcome.kind = "success")) @@ @]
    /\ UNCHANGED <<hash_seed, validation_results, overall_result, runs, arg, call,
                   session_status>>

\* process_session_files after the gather: the counts and the return
ProcessSessionFilesReturn ==
    /\ tasks.pc = "gather"
    /\ DOMAIN tasks.outcomes = Range(tasks.selected)
    /\ tasks' = [tasks EXCEPT !.pc = "processed",
                     !.processing_result =
                         [returned |-> TRUE, success |-> TRUE,
                          processed_count |-> Len(tasks.selected),
                          successful_count |->
                              Cardinality({id \in DOMAIN tasks.outcomes : tasks.outcomes[id]}),
                          failed_count |->
                              Cardinality({id \in DOMAIN tasks.outcomes : ~tasks.outcomes[id]})]]
    /\ UNCHANGED <<files, hash_seed, validation_results, overall_result, runs, arg, call,
                   session_status>>

\* run_complete_analysis after its await.  processing_result['failed_count']
\* raises KeyError on the early return of process_session_files; the except
\* block sets the status and returns success False.
RunCompleteAnalysisReturn ==
    /\ tasks.op = "run_complete_analysis"
    /\ tasks.pc = "processed"
    /\ \E processing_result \in {tasks.processing_result} :
          IF ~processing_result.success
          THEN /\ session_status' = "FAILED"
               /\ tasks' = [tasks EXCEPT !.pc = "returned"]
               /\ call' = [op |-> "run_complete_analysis",
                           out |-> [success |-> FALSE, error |-> "File processing failed"]]
               /\ UNCHANGED <<validation_results, overall_result, runs>>
          ELSE IF "failed_count" \notin DOMAIN processing_result
          THEN /\ session_status' = ExceptStatus(session_status)
               /\ tasks' = [tasks EXCEPT !.pc = "returned"]
               /\ call' = [op |-> "run_complete_analysis",
                           out |-> [success |-> FALSE, error |-> "'failed_count'"]]
               /\ UNCHANGED <<validation_results, overall_result, runs>>
          ELSE \E done \in {validate_session(ProcessedFiles, hash_seed)} :
               /\ validation_results' = validation_results \o done.rows
               /\ overall_result' = done.overall
               /\ runs' = runs + 1
               /\ session_status' = IF done.ret.success THEN "COMPLETED" ELSE "FAILED"
               /\ tasks' = [tasks EXCEPT !.pc = "returned",
                                !.validation_result =
                                    [returned |-> TRUE, success |-> done.ret.success]]
               /\ call' = [op |-> "run_complete_analysis",
                           out |-> [success |-> done.ret.success,
                                    error |-> IF done.ret.success THEN ""
                                              ELSE "Validation failed"]]
    /\ UNCHANGED <<files, hash_seed, arg>>

\* calling an async def without await gives a coroutine object; its body never
\* runs
Coroutine(fn) == [coroutine |-> fn]

\* obj[key] reads a dict; on a coroutine object it raises TypeError
Subscriptable(obj) == "coroutine" \notin DOMAIN obj

\* POST /process/{session_id}: 400 without files; else the status is set to
\* PROCESSING and the background task is scheduled
PostProcess ==
    /\ tasks.op = "none"
    /\ Len(files) > 0
    /\ session_status' = "PROCESSING"
    /\ tasks' = [NoTasks EXCEPT !.op = "process_files_background", !.pc = "scheduled",
                                !.pending = PendingIds]
    /\ call' = [op |-> "process_session_files", out |-> [status |-> "processing"]]
    /\ UNCHANGED <<files, hash_seed, validation_results, overall_result, runs, arg>>

\* process_files_background: process_session_files is called without await,
\* result['success'] raises TypeError, the except block marks the session FAILED
ProcessFilesBackground ==
    /\ tasks.op = "process_files_background"
    /\ tasks.pc = "scheduled"
    /\ \E result \in {Coroutine("process_session_files")} :
          session_status' =
              IF Subscriptable(result)
              THEN IF result.success /\ result.failed_count = 0 THEN "COMPLETED" ELSE "FAILED"
              ELSE "FAILED"
    /\ tasks' = [tasks EXCEPT !.pc = "returned"]
    /\ UNCHANGED <<files, hash_seed, validation_results, overall_result, runs, arg, call>>

\* the files retry_failed_processing is to process again
Retryable == {i \in DOMAIN files : files[i].processing_status \in {"PENDING", "FAILED"}}

\* retry_failed_processing: process_session_files is called without await,
\* result['success'] raises TypeError, the except block returns success False
RetryFailedProcessing ==
    /\ tasks.op = "none"
    /\ \E result \in {Coroutine("process_session_files")} :
       \E validate \in {Subscriptable(result) /\ result.success /\ result.failed_count = 0} :
       \E done \in {IF validate THEN validate_session(ProcessedFiles, hash_seed)
                    ELSE [ret |-> NotReturned, rows |-> <<>>, overall |-> overall_result]} :
          /\ validation_results' = validation_results \o done.rows
          /\ overall_result' = done.overall
          /\ call' = [op |-> "retry_failed_processing",
                      out |-> IF ~Subscriptable(result)
                              THEN [success |-> FALSE,
                                    error |-> "'coroutine' object is not subscriptable"]
                              ELSE [success |-> validate \/ result.success, error |-> ""]]
          /\ tasks' = [NoTasks EXCEPT !.op = "retry_failed_processing", !.pc = "returned",
                           !.retryable = Retryable,
                           !.times = [i \in DOMAIN files |-> 0],
                           !.validation_result =
                               [returned |-> validate, success |-> done.ret.success]]
    /\ UNCHANGED <<files, hash_seed, runs, arg, session_status>>

NextWorkflow ==
    \/ RunCompleteAnalysis \/ QueryPendingFiles
    \/ ProcessFileSync \/ ProcessFileStart \/ ProcessFileFinish
    \/ ProcessSessionFilesReturn \/ RunCompleteAnalysisReturn
    \/ PostProcess \/ ProcessFilesBackground
    \/ RetryFailedProcessing
SpecWorkflow == InitWorkflow /\ [][NextWorkflow]_vars

C25_BackgroundProcessing ==
    tasks.op = "process_files_background" =>
        /\ tasks.pc = "scheduled" => session_status = "PROCESSING"
        /\ tasks.pc = "returned" =>
              /\ \A id \in tasks.pending :
                    \/ /\ files[id].processing_status = "COMPLETED"
                       /\ files[id].extracted_data # NoData
                    \/ /\ files[id].processing_status = "FAILED"
                       /\ files[id].processing_error # Null
              /\ session_status =
                     IF \A id \in tasks.pending : files[id].processing_status = "COMPLETED"
                     THEN "COMPLETED" ELSE "FAILED"

\* C26: retry_failed_processing processes every PENDING or FAILED file of the
\* session once and no COMPLETED file, and calls validate_session exactly when
\* none of them failed.
C26_RetryReprocesses ==
    tasks.op = "retry_failed_processing" =>
        /\ \A id \in DOMAIN files :
              tasks.times[id] = IF id \in tasks.retryable THEN 1 ELSE 0
        /\ tasks.validation_result.returned <=>
              \A id \in tasks.retryable : files[id].processing_status = "COMPLETED"

-----------------------------------------------------------------------------
(* validate_session and its transaction *)

\* how the commit at the end of validate_session can end: the flush of the new
\* rows can be refused by the database (a value longer than its column)
SaveOutcomes == {"committed", "commit raises"}

\* a rollback that leaves the added rows in the table
RollbackKeepsAdded(added) == added

\* db.rollback(): the rows added in the transaction that remain stored
Rollback(added) == <<>>

\* validate_session with the session lookup and the commit made explicit: the
\* session may be missing (ValueError), and the commit may raise after every
\* row was added and session.overall_result was assigned; both end in the
\* except block, which rolls back and returns success False
validate_session_saving(fs, seed, session_exists, save) ==
    IF ~session_exists
    THEN [ret |-> Failure("Session not found"), rows |-> Rollback(<<>>),
          overall |-> overall_result]
    ELSE Only({
           IF done.ret.success /\ save = "commit raises"
           THEN [ret |-> Failure("str(e)"), rows |-> Rollback(done.rows),
                 overall |-> overall_result]
           ELSE done
           : done \in {validate_session(fs, seed)} })

\* sessions in every processing state, and a session id that names no row
InitAtomic ==
    \E fs \in MixedSessions : \E session_exists \in BOOLEAN :
        /\ session_exists \/ fs = <<>>
        /\ Fresh(fs, "seed_a", [session_exists |-> session_exists])

ValidateSessionSaving ==
    /\ runs < MaxRuns
    /\ \E save \in SaveOutcomes :
       \E done \in {validate_session_saving(ProcessedFiles, hash_seed, arg.session_exists, save)} :
           /\ validation_results' = validation_results \o done.rows
           /\ overall_result' = done.overall
           /\ call' = [op |-> "validate_session", out |-> done.ret]
    /\ runs' = runs + 1
    /\ UNCHANGED <<files, hash_seed, arg, session_status, tasks>>

\* process_file called on its own on a file without data, so that a later
\* validation reads other files than an earlier one
ProcessFileDirect ==
    /\ \E id \in DOMAIN files :
          /\ files[id].processing_status \in {"PENDING", "FAILED"}
          /\ \E outcome \in ExtractorOutcomes(files[id].file_type) :
                files' = [files EXCEPT ![id] = ProcessFileResult(@, outcome)]
    /\ call' = [op |-> "process_file"]
    /\ UNCHANGED <<hash_seed, validation_results, overall_result, runs, arg, session_status, tasks>>

NextAtomic == ValidateSessionSaving \/ ProcessFileDirect
SpecAtomic == InitAtomic /\ [][NextAtomic]_vars

\* C28: a validate_session call that returns success False leaves the stored
\* validation rows and the session's overall_result as they were; a call that
\* returns success True stores all CheckResults of the run and the new
\* overall_result together.
C28_Atomic ==
    [][runs' = runs + 1 =>
          IF call'.out.success
          THEN /\ validation_results' = validation_results \o call'.out.results
               /\ overall_result' = call'.out.overall_result
          ELSE /\ validation_results' = validation_results
               /\ overall_result' = overall_result]_vars

\* a second run whose commit is refused, after a first run stored its rows and
\* a verdict
C28_Witness ==
    /\ call.op = "validate_session"
    /\ ~call.out.success
    /\ call.out.error = "str(e)"
    /\ runs = 2
    /\ overall_result # Null
    /\ validation_results # <<>>

-----------------------------------------------------------------------------
(* The verdict and the roles present in the aggregated view *)

\* the seven executors in the order of validate_session on the aggregated view
\* and the verdict over their concatenated results; an exception of an executor
\* leaves no verdict
RunExecutors ==
    /\ \E outs \in {Executors(View, hash_seed)} :
       \E results \in {Concat([i \in DOMAIN outs |-> outs[i].results])} :
          call' = [op |-> "executors",
                   out |-> IF \E i \in DOMAIN outs : outs[i].raised
                           THEN [raised |-> TRUE, results |-> <<>>, verdict |-> Null]
                           ELSE [raised |-> FALSE, results |-> results,
                                 verdict |-> _determine_overall_result(results)]]
    /\ UNCHANGED <<files, hash_seed, validation_results, overall_result, runs, arg,
                   session_status, tasks>>

\* views with every combination of roles present: a Traveler that matches the
\* BOM or whose revision makes the Revision executor raise, an Image with
\* matching or foreign board serials and any flight status, BOM bags that
\* match or not
InitAggregate ==
    \E seed \in HashSeeds :
    \E traveler \in {NoData, DefaultTraveler, BadRevisionTraveler} :
    \E image \in {NoData} \cup {ImageData(boards, DefaultSerials, f) :
                                    boards \in {DefaultSerials, <<<<"7","8">>>>},
                                    f \in FlightPool} :
    \E boms \in {<<>>, <<DefaultBom>>, <<MismatchBom>>, <<DefaultBom, DefaultBom>>,
                  <<MismatchBom, DefaultBom>>} :
        Fresh(SessionFiles(traveler, image, boms), seed, <<>>)

NextAggregate == RunExecutors
SpecAggregate == InitAggregate /\ [][NextAggregate]_vars

\* C29: a verdict of PASS over the results of the seven executors means a
\* Traveler bag, an Image bag and a BOM bag are present and the Image bag holds
\* a non-empty flight status; without a Traveler bag or without any BOM bag the
\* verdict is FAIL; with only the Image bag absent the verdict is not PASS.
C29_VerdictNeedsAllRoles ==
    call.op = "executors" =>
        LET has_traveler == View.traveler_data.present
            has_image == View.image_data.present
            has_bom == View.bom_data # <<>>
        IN  /\ (~call.out.raised /\ call.out.verdict = "PASS") =>
                  /\ has_traveler /\ has_image /\ has_bom
                  /\ View.image_data.data.flight_status # None
                  /\ View.image_data.data.flight_status # <<>>
            /\ (~has_traveler \/ ~has_bom) =>
                  ~call.out.raised /\ call.out.verdict = "FAIL"
            /\ (has_traveler /\ has_bom /\ ~has_image /\ ~call.out.raised) =>
                  call.out.verdict # "PASS"

\* a complete and consistent session passes
C29_Witness ==
    /\ call.op = "executors"
    /\ ~call.out.raised
    /\ call.out.verdict = "PASS"
    /\ View.traveler_data.present /\ View.image_data.present /\ Len(View.bom_data) = 2

-----------------------------------------------------------------------------
(* Aggregation of the session's files into the view *)

\* a Traveler of another job
OtherTraveler ==
    TravelerData(<<<<"9","9","9","9","9">>>>, DefaultParts, DefaultRevs, DefaultSerials,
                 DefaultSerials, NoSeq20)

\* an Image of another board, without flight marking
OtherImage == ImageData(<<<<"7","8">>>>, DefaultSerials, None)

\* the rows a session can hold: two different documents of each type, and files
\* of each type without extracted data
ExtractPool ==
    {File(0, "TRAVELER_PDF", d) : d \in {DefaultTraveler, OtherTraveler, NoData}}
        \cup {File(0, "PRODUCT_IMAGE", d) : d \in {DefaultImage, OtherImage, NoData}}
        \cup {File(0, "BOM_EXCEL", d) : d \in {DefaultBom, MismatchBom, NoData}}

InitExtract ==
    \E rows \in SeqsUpTo(ExtractPool, MaxFiles) : Fresh(WithIds(rows), "seed_a", <<>>)

CallExtractSessionData ==
    /\ call' = [op |-> "_extract_session_data", out |-> _extract_session_data(files)]
    /\ UNCHANGED <<files, hash_seed, validation_results, overall_result, runs, arg,
                   session_status, tasks>>

NextExtract == CallExtractSessionData
SpecExtract == InitExtract /\ [][NextExtract]_vars

\* the positions of the successfully processed files of a type
Processed(file_type) ==
    {i \in DOMAIN files : /\ files[i].file_type = file_type
                          /\ files[i].extracted_data # NoData
                          /\ files[i].extracted_data.success}

\* the rows without the Traveler and Image files that a later file of the same
\* type follows
WithoutShadowed ==
    SelectSeq(files,
              LAMBDA f : \A t \in {"TRAVELER_PDF", "PRODUCT_IMAGE"} :
                  f.id \in Processed(t) => \A j \in Processed(t) : j <= f.id)

\* C30: the view holds every processed BOM file once, in order; file_info holds
\* one entry per processed file; the Traveler (Image) bag is absent exactly
\* when no processed Traveler (Image) file exists, and otherwise is the bag of
\* the last one; the files of these two types before the last change no
\* CheckResult.
C30_GroupsByRole ==
    call.op = "_extract_session_data" =>
        LET out == call.out
            ok == Processed("TRAVELER_PDF") \cup Processed("PRODUCT_IMAGE")
                      \cup Processed("BOM_EXCEL")
            Last(S) == CHOOSE i \in S : \A j \in S : j <= i
            bag(i) == extract_data_by_file_type(files[i].extracted_data)
        IN  /\ Len(out.bom_data) = Cardinality(Processed("BOM_EXCEL"))
            /\ \A k \in DOMAIN out.bom_data :
                  \E i \in Processed("BOM_EXCEL") :
                      /\ Cardinality({j \in Processed("BOM_EXCEL") : j <= i}) = k
                      /\ out.bom_data[k] = bag(i)
            /\ Len(out.file_info) = Cardinality(ok)
            /\ \A i \in ok :
                  Cardinality({k \in DOMAIN out.file_info :
                                  out.file_info[k].id = files[i].id}) = 1
            /\ out.traveler_data.present <=> Processed("TRAVELER_PDF") # {}
            /\ out.image_data.present <=> Processed("PRODUCT_IMAGE") # {}
            /\ Processed("TRAVELER_PDF") # {} =>
                  out.traveler_data.data = bag(Last(Processed("TRAVELER_PDF")))
            /\ Processed("PRODUCT_IMAGE") # {} =>
                  out.image_data.data = bag(Last(Processed("PRODUCT_IMAGE")))
            /\ Executors(out, hash_seed)
                   = Executors(_extract_session_data(WithoutShadowed), hash_seed)

\* two different Travelers and a BOM: the later Traveler is the one checked
C30_Witness ==
    /\ call.op = "_extract_session_data"
    /\ Len(files) = 3
    /\ files[1].file_type = "TRAVELER_PDF" /\ files[1].extracted_data = DefaultTraveler
    /\ files[2].file_type = "TRAVELER_PDF" /\ files[2].extracted_data = OtherTraveler
    /\ files[3].extracted_data = DefaultBom
    /\ call.out.traveler_data.data.job_numbers = <<<<"9","9","9","9","9">>>>

=============================================================================
